---- MODULE Spec2Model ----
(***************************************************************************)
(* Download queue of yt-dlp-modern-gui: the task store (db/queue.rs), the  *)
(* concurrency gate (download/manager.rs), the commands                    *)
(* (download/commands.rs, commands/queue.rs), the execution pipeline and   *)
(* the scheduler loop (download/executor.rs) and startup (lib.rs).         *)
(*                                                                         *)
(* Every command, scheduler invocation and pipeline run is a thread of the *)
(* multi-threaded runtime; a thread takes one step per access to the       *)
(* shared state (one SQL statement under the connection mutex, one atomic  *)
(* operation on the gate, one locked access to the cancel registry).       *)
(***************************************************************************)
EXTENDS Bags, FiniteSets, Integers, Sequences

\* ---------------------------------------------------------------- bounds
MaxTasks == 2
MaxCeiling == 2
MaxCmds == 1
MaxOps == 3
MaxCrashes == 1

\* DownloadManager clamps the ceiling to [MinConcurrent, MaxConcurrent]
MinConcurrent == 1
MaxConcurrent == 20

VARIABLES
    downloads,       \* table downloads: id -> [status, error_message, created_at]
    history,         \* number of rows of table history
    next_id,         \* AUTOINCREMENT sequence of table downloads
    clock,           \* chrono::Utc::now().timestamp()
    active_count,    \* DownloadManager.active_count
    max_concurrent,  \* DownloadManager.max_concurrent
    cancel_senders,  \* DownloadManager.cancel_senders: ids that have a sender
    threads,         \* bag of running commands, scheduler loops and pipelines
    phase,           \* "up": process running, "down": process killed
    crashes,         \* number of ungraceful stops so far
    ops,             \* number of commands invoked so far
    reset_count,     \* what reset_stale_downloads returned at the last start
    stale_pending,   \* rows that were Pending at the last start
    listening,       \* the download-events of this behaviour are recorded
    events,          \* id -> the kinds of download-event emitted for it so far
    output,          \* stderr reader: the bounded buffer, a sequence of bytes
    appended,        \* stderr reader: everything appended so far, never cut
    max_bytes,       \* stderr reader: the capacity given to append_limited
    line,            \* stdout reader: the line read last
    progress_info,   \* stdout reader: what parse_progress_line returned for it
    last_progress_percent,  \* stdout reader: percent of the last update
    progress         \* columns progress, speed, eta of the reader's row

vars == <<downloads, history, next_id, clock, active_count, max_concurrent,
          cancel_senders, threads, phase, crashes, ops,
          reset_count, stale_pending, listening, events,
          output, appended, max_bytes, line, progress_info,
          last_progress_percent, progress>>

dbvars == <<downloads, history, next_id, clock>>
gatevars == <<active_count, max_concurrent, cancel_senders>>
procvars == <<phase, crashes, reset_count, stale_pending>>
envvars == <<procvars, ops>>
uivars == <<listening, events>>
errvars == <<output, appended, max_bytes>>
outvars == <<line, progress_info, last_progress_percent, progress>>
iovars == <<errvars, outvars>>

\* ---------------------------------------------------------------- values
Pending == "pending"
Downloading == "downloading"
Completed == "completed"
Failed == "failed"
Cancelled == "cancelled"

Terminal == {Completed, Failed, Cancelled}

NULL == "NULL"
AppClosedMsg == "App closed during download"
NotFoundMsg == "yt-dlp not found. Please install via Homebrew or click Install."
SpawnMsg == "Failed to spawn yt-dlp"
ExitMsg == "yt-dlp exited with code"
WaitMsg == "Failed to wait for process"

TaskIds == 1..MaxTasks

\* Option: None and Some(x)
None == <<>>
Some(x) == <<x>>

\* const STDERR_BUFFER_LIMIT_BYTES: usize = 64 * 1024
STDERR_BUFFER_LIMIT_BYTES == 65536

\* the stream readers of a pipeline before the first line is read
ReadersIdle ==
    /\ output = <<>>
    /\ appended = <<>>
    /\ max_bytes = STDERR_BUFFER_LIMIT_BYTES
    /\ line = <<>>
    /\ progress_info = None
    /\ last_progress_percent = None
    /\ progress = None

\* no download-event has been emitted
NoEvents == [id \in TaskIds |-> {}]

\* ---------------------------------------------------------------- threads
\* kind: which function the thread runs; pc: the next access to shared state;
\* task: its task id; worker: the yt-dlp child of a pipeline; rx: the state of
\* the pipeline's watch receiver; hit: a cancel command flipped the row while
\* this pipeline owned it; ids, cnt, val: locals of cancel_all_downloads;
\* snap: the ids cancel_all_downloads read, kept while the loop consumes ids;
\* worker is "missing" when the executable could not be resolved;
\* reader: the task that reads the worker's stdout; log: the download-events
\* this run has emitted, in order, when they are recorded.
Thread(kind, pc, task) ==
    [kind |-> kind, pc |-> pc, task |-> task, worker |-> "none", rx |-> "none",
     hit |-> FALSE, ids |-> {}, snap |-> {}, cnt |-> 0, val |-> 0,
     reader |-> "none", log |-> <<>>]

Running == BagToSet(threads)

Spawn(B, th) == B (+) SetToBag({th})
Exit(B, th) == B (-) SetToBag({th})
Become(B, th, new) == Spawn(Exit(B, th), new)

RECURSIVE SumCopies(_, _)
SumCopies(B, S) ==
    IF S = {} THEN 0
    ELSE LET s == CHOOSE x \in S : TRUE
         IN  CopiesIn(s, B) + SumCopies(B, S \ {s})

\* the bag B with F applied to every thread
MapThreads(B, F(_)) ==
    LET S == BagToSet(B)
    IN  [x \in {F(s) : s \in S} |-> SumCopies(B, {s \in S : F(s) = x})]

Count(B, P(_)) == SumCopies(B, {s \in BagToSet(B) : P(s)})

CmdKinds ==
    {"add_to_queue", "retry_download", "cancel_download", "cancel_all_downloads",
     "cancel_all", "clear_completed"}
IsCmd(th) == th.kind \in CmdKinds
CmdRoom == phase = "up" /\ ops < MaxOps /\ Count(threads, IsCmd) < MaxCmds

\* ---------------------------------------------------------------- task store
Rows == DOMAIN downloads

Status(id) == downloads[id].status

IsExec(th) == th.kind = "execute_download"

\* the execute_download instances that are live for id: spawned, and not yet
\* past the release of their slot
Owners(id) == LET P(th) == IsExec(th) /\ th.task = id IN Count(threads, P)

Row(created_at) ==
    [status |-> Pending, error_message |-> NULL, created_at |-> created_at]

\* INSERT INTO downloads (...): status defaults to 'pending'
insert_download(d, id, created_at) ==
    [r \in DOMAIN d \cup {id} |-> IF r = id THEN Row(created_at) ELSE d[r]]

\* UPDATE downloads SET status = ?1, error_message = ?2 WHERE id = ?3
update_download_status(d, id, status, error_msg) ==
    [r \in DOMAIN d |->
        IF r = id
        THEN [d[r] EXCEPT !.status = status, !.error_message = error_msg]
        ELSE d[r]]

\* a cancel that does not look at the status of the row
cancel_if_active_unguarded(d, id) ==
    LET hit == id \in DOMAIN d
    IN  [db |-> IF hit THEN [d EXCEPT ![id].status = Cancelled] ELSE d,
         changed |-> hit]

\* UPDATE downloads SET status = 'cancelled'
\*  WHERE id = ?1 AND status IN ('pending', 'downloading')
cancel_if_active(d, id) ==
    LET hit == id \in DOMAIN d /\ d[id].status \in {Pending, Downloading}
    IN  [db |-> IF hit THEN [d EXCEPT ![id].status = Cancelled] ELSE d,
         changed |-> hit]

\* UPDATE downloads SET status = 'completed', ... WHERE id = ?2
mark_completed(d, id) ==
    [r \in DOMAIN d |-> IF r = id THEN [d[r] EXCEPT !.status = Completed] ELSE d[r]]

\* one transaction: the UPDATE of mark_completed and INSERT INTO history
complete_and_record(d, h, id) ==
    [db |-> mark_completed(d, id), history |-> h + 1]

\* a sweep that deletes every row that is not Downloading
clear_completed_eager(d) ==
    LET keep == {r \in DOMAIN d : d[r].status = Downloading}
    IN  [db |-> [r \in keep |-> d[r]], deleted |-> Cardinality(DOMAIN d \ keep)]

\* DELETE FROM downloads WHERE status IN ('completed', 'cancelled', 'failed'):
\* the table it leaves and the number of rows deleted
clear_completed(d) ==
    LET keep == {r \in DOMAIN d : d[r].status \notin {Completed, Cancelled, Failed}}
    IN  [db |-> [r \in keep |-> d[r]], deleted |-> Cardinality(DOMAIN d \ keep)]

\* the subquery with ORDER BY created_at DESC
NewestPending(d) ==
    {r \in DOMAIN d :
        /\ d[r].status = Pending
        /\ \A q \in DOMAIN d :
              d[q].status = Pending => d[r].created_at >= d[q].created_at}

\* SELECT id FROM downloads WHERE status = 'pending' ORDER BY created_at ASC
\* LIMIT 1: the rows the subquery may pick (SQL leaves ties open)
OldestPending(d) ==
    {r \in DOMAIN d :
        /\ d[r].status = Pending
        /\ \A q \in DOMAIN d :
              d[q].status = Pending => d[r].created_at <= d[q].created_at}

\* a claim that reads the oldest Pending row and leaves the marking of it to
\* the caller
claim_next_pending_read_only(d) ==
    IF OldestPending(d) = {}
    THEN {[db |-> d, id |-> 0]}
    ELSE {[db |-> d, id |-> r] : r \in OldestPending(d)}

\* UPDATE downloads SET status = 'downloading' WHERE id = (subquery)
\* RETURNING id: the possible results, id = 0 when no row is pending
claim_next_pending(d) ==
    IF OldestPending(d) = {}
    THEN {[db |-> d, id |-> 0]}
    ELSE {[db |-> [d EXCEPT ![r].status = Downloading], id |-> r] :
            r \in OldestPending(d)}

\* SELECT COUNT(*) FROM downloads WHERE status = 'downloading'
get_active_count(d) ==
    Cardinality({r \in DOMAIN d : d[r].status = Downloading})

\* SELECT id FROM downloads WHERE status IN ('downloading', 'pending')
get_cancellable_ids(d) ==
    {r \in DOMAIN d : d[r].status \in {Downloading, Pending}}

\* a sweep that sets the status and leaves the message as it is
reset_stale_downloads_bare(d) ==
    [db |-> [r \in DOMAIN d |->
                IF d[r].status = Downloading
                THEN [d[r] EXCEPT !.status = Failed]
                ELSE d[r]],
     rows |-> get_active_count(d)]

\* a sweep that puts the rows left Downloading back in the queue
reset_stale_downloads_requeue(d) ==
    [db |-> [r \in DOMAIN d |->
                IF d[r].status = Downloading
                THEN [d[r] EXCEPT !.status = Pending]
                ELSE d[r]],
     rows |-> get_active_count(d)]

\* UPDATE downloads SET status = 'failed', error_message = 'App closed during
\* download' WHERE status = 'downloading'
reset_stale_downloads(d) ==
    [db |-> [r \in DOMAIN d |->
                IF d[r].status = Downloading
                THEN [d[r] EXCEPT !.status = Failed, !.error_message = AppClosedMsg]
                ELSE d[r]],
     rows |-> get_active_count(d)]

\* ---------------------------------------------------------------- gate
\* a ceiling stored as it is given
unclamped(n) == n

\* u32::clamp(1, 20)
clamp(n) ==
    IF n < MinConcurrent THEN MinConcurrent
    ELSE IF n > MaxConcurrent THEN MaxConcurrent ELSE n

\* DownloadManager::set_max_concurrent: the value stored
set_max_concurrent(val) == clamp(val)

\* the compare-and-swap loop: the count it leaves, and whether it returned true
try_acquire(count, ceiling) ==
    IF count >= ceiling
    THEN [ok |-> FALSE, count |-> count]
    ELSE [ok |-> TRUE, count |-> count + 1]

\* a release that leaves the count as it is
release_kept(count) == count

\* a release that gives two slots back
release_twice(count) == IF count > 1 THEN count - 2 ELSE 0

\* fetch_update(count.saturating_sub(1))
release(count) == IF count > 0 THEN count - 1 ELSE 0

sync_active_count(count, n) == n

\* a pipeline's receiver fires when its sender sends true or is dropped
Fire(th, id) ==
    IF th.kind = "execute_download" /\ th.task = id /\ th.rx = "armed"
    THEN [th EXCEPT !.rx = "fired"]
    ELSE th

FireAll(B, id) == LET F(th) == Fire(th, id) IN MapThreads(B, F)

\* senders.insert(task_id, tx): a sender already in the map is dropped
register_cancel(senders, B, id) ==
    [senders |-> senders \cup {id}, threads |-> FireAll(B, id)]

\* a send_cancel that signals every registered pipeline
send_cancel_every(senders, B, id) ==
    [senders |-> {},
     threads |-> LET F(th) == IF th.kind = "execute_download" /\ th.rx = "armed"
                              THEN [th EXCEPT !.rx = "fired"] ELSE th
                 IN  MapThreads(B, F)]

\* if let Some(tx) = senders.remove(&task_id) { tx.send(true) }
send_cancel(senders, B, id) ==
    [senders |-> senders \ {id},
     threads |-> IF id \in senders THEN FireAll(B, id) ELSE B]

\* a cancel_all that signals one registered task only
cancel_all_one(senders, B) ==
    IF senders = {} THEN [senders |-> {}, threads |-> B]
    ELSE LET id == CHOOSE i \in senders : TRUE
         IN  [senders |-> senders \ {id}, threads |-> FireAll(B, id)]

\* for (_task_id, tx) in senders.drain() { tx.send(true) }
cancel_all(senders, B) ==
    [senders |-> {},
     threads |-> LET F(th) == IF th.kind = "execute_download" /\ th.task \in senders
                                 /\ th.rx = "armed"
                              THEN [th EXCEPT !.rx = "fired"] ELSE th
                 IN  MapThreads(B, F)]

\* senders.remove(&task_id): the sender is dropped
unregister_cancel(senders, B, id) ==
    [senders |-> senders \ {id},
     threads |-> IF id \in senders THEN FireAll(B, id) ELSE B]

\* a cancel command flipped the row of id from Downloading to Cancelled:
\* remember it on the pipelines that own the row at that moment
MarkHit(th, id) ==
    IF th.kind = "execute_download" /\ th.task = id
       /\ th.pc \in {"get_download", "resolve", "register_cancel", "spawn_failed", "select"}
    THEN [th EXCEPT !.hit = TRUE]
    ELSE th

MarkAll(B, id) == LET F(th) == MarkHit(th, id) IN MapThreads(B, F)

\* ---------------------------------------------------------------- commands
Cmd(kind, pc, task) == Thread(kind, pc, task)
Pnp == Thread("process_next_pending", "try_acquire", 0)
Exec(id) == Thread("execute_download", "get_download", id)

At(th, kind, pc) == th \in Running /\ th.kind = kind /\ th.pc = pc
Step(th, pc) == Become(threads, th, [th EXCEPT !.pc = pc])

\* app.emit("download-event", GlobalDownloadEvent { task_id, event_type, .. }):
\* the kind is added to what was emitted for the id
emit(ev, id, kind) ==
    IF listening /\ id \in DOMAIN ev THEN [ev EXCEPT ![id] = @ \cup {kind}] ELSE ev

\* the run th after it has emitted an event of this kind; a progress event
\* that follows a progress event is not recorded again
Logged(th, kind) ==
    IF ~listening THEN th
    ELSE IF kind = "progress" /\ Len(th.log) > 0 /\ th.log[Len(th.log)] = "progress"
         THEN th
         ELSE [th EXCEPT !.log = Append(@, kind)]

\* one step of the run th that emits an event of this kind and goes to pc
StepEmit(th, pc, kind) == Become(threads, th, Logged([th EXCEPT !.pc = pc], kind))

\* chrono::Utc::now().timestamp() at an insert: the second of the last insert
\* or a later one (only the order of the created_at values is read)
Now ==
    {clock} \cup {clock + 1 : r \in {q \in Rows : downloads[q].created_at = clock}}

\* add_to_queue: insert_download, the row is Pending
AddToQueue ==
    /\ CmdRoom
    /\ next_id <= MaxTasks
    /\ \E now \in Now :
          /\ clock' = now
          /\ downloads' = insert_download(downloads, next_id, now)
    /\ next_id' = next_id + 1
    /\ threads' = Spawn(threads, Cmd("add_to_queue", "try_acquire", next_id))
    /\ ops' = ops + 1
    /\ UNCHANGED <<history, gatevars, procvars, uivars, iovars>>

\* add_to_queue: manager.try_acquire(); without a slot it spawns
\* process_next_pending and returns
AddAcquire(th) ==
    /\ At(th, "add_to_queue", "try_acquire")
    /\ LET got == try_acquire(active_count, max_concurrent)
       IN  /\ active_count' = got.count
           /\ threads' = IF got.ok
                         THEN Step(th, "set_downloading")
                         ELSE Become(threads, th, Pnp)
    /\ UNCHANGED <<dbvars, max_concurrent, cancel_senders, envvars, uivars, iovars>>

\* add_to_queue: update_download_status(Downloading) returns Ok and the
\* pipeline is spawned
AddDispatch(th) ==
    /\ At(th, "add_to_queue", "set_downloading")
    /\ downloads' = update_download_status(downloads, th.task, Downloading, NULL)
    /\ threads' = Become(threads, th, Exec(th.task))
    /\ UNCHANGED <<history, next_id, clock, gatevars, envvars, uivars, iovars>>

\* add_to_queue: update_download_status(Downloading) returns Err
AddDispatchErr(th) ==
    /\ At(th, "add_to_queue", "set_downloading")
    /\ threads' = Step(th, "release")
    /\ UNCHANGED <<dbvars, gatevars, envvars, uivars, iovars>>

\* add_to_queue: manager.release() after the Err
AddRelease(th) ==
    /\ At(th, "add_to_queue", "release")
    /\ active_count' = release(active_count)
    /\ threads' = Exit(threads, th)
    /\ UNCHANGED <<dbvars, max_concurrent, cancel_senders, envvars, uivars, iovars>>

\* retry_download: get_download finds the row
RetryDownload(id) ==
    /\ CmdRoom
    /\ id \in Rows
    /\ ops' = ops + 1
    /\ threads' = Spawn(threads, Cmd("retry_download", "set_pending", id))
    /\ UNCHANGED <<dbvars, gatevars, procvars, uivars, iovars>>

\* retry_download: update_download_status(Pending)
RetrySetPending(th) ==
    /\ At(th, "retry_download", "set_pending")
    /\ downloads' = update_download_status(downloads, th.task, Pending, NULL)
    /\ threads' = Step(th, "try_acquire")
    /\ UNCHANGED <<history, next_id, clock, gatevars, envvars, uivars, iovars>>

\* retry_download: manager.try_acquire(); without a slot it just returns
RetryAcquire(th) ==
    /\ At(th, "retry_download", "try_acquire")
    /\ LET got == try_acquire(active_count, max_concurrent)
       IN  /\ active_count' = got.count
           /\ threads' = IF got.ok
                         THEN Step(th, "set_downloading")
                         ELSE Exit(threads, th)
    /\ UNCHANGED <<dbvars, max_concurrent, cancel_senders, envvars, uivars, iovars>>

\* retry_download: update_download_status(Downloading) returns Ok and the
\* pipeline is spawned
RetryDispatch(th) ==
    /\ At(th, "retry_download", "set_downloading")
    /\ downloads' = update_download_status(downloads, th.task, Downloading, NULL)
    /\ threads' = Become(threads, th, Exec(th.task))
    /\ UNCHANGED <<history, next_id, clock, gatevars, envvars, uivars, iovars>>

\* retry_download: update_download_status(Downloading)? returns Err and the
\* command returns at once
RetryDispatchErr(th) ==
    /\ At(th, "retry_download", "set_downloading")
    /\ threads' = Exit(threads, th)
    /\ UNCHANGED <<dbvars, gatevars, envvars, uivars, iovars>>

\* cancel_download: cancel_if_active; when it returns false the command goes
\* on to return Ok(()) without a signal
CancelDownload(id) ==
    /\ CmdRoom
    /\ LET res == cancel_if_active(downloads, id)
       IN  /\ downloads' = res.db
           /\ threads' =
                 IF res.changed
                 THEN Spawn(IF downloads[id].status = Downloading
                            THEN MarkAll(threads, id) ELSE threads,
                            Cmd("cancel_download", "send_cancel", id))
                 ELSE Spawn(threads, Cmd("cancel_download", "return", id))
    /\ ops' = ops + 1
    /\ UNCHANGED <<history, next_id, clock, gatevars, procvars, uivars, iovars>>

\* cancel_download: manager.send_cancel(task_id)
CancelSend(th) ==
    /\ At(th, "cancel_download", "send_cancel")
    /\ LET res == send_cancel(cancel_senders, Exit(threads, th), th.task)
       IN  /\ cancel_senders' = res.senders
           /\ threads' = res.threads
    /\ UNCHANGED <<dbvars, active_count, max_concurrent, envvars, uivars, iovars>>

\* cancel_download: was_cancelled is false, Ok(())
CancelReturn(th) ==
    /\ At(th, "cancel_download", "return")
    /\ threads' = Exit(threads, th)
    /\ UNCHANGED <<dbvars, gatevars, envvars, uivars, iovars>>

\* cancel_all_downloads: get_cancellable_ids
CancelAllDownloads ==
    /\ CmdRoom
    /\ threads' = Spawn(threads,
                        [Cmd("cancel_all_downloads", "cancel_if_active", 0)
                            EXCEPT !.ids = get_cancellable_ids(downloads),
                                   !.snap = get_cancellable_ids(downloads)])
    /\ ops' = ops + 1
    /\ UNCHANGED <<dbvars, gatevars, procvars, uivars, iovars>>

\* cancel_all_downloads: cancel_if_active(id) for the next id of the snapshot
CancelAllCancel(th) ==
    /\ At(th, "cancel_all_downloads", "cancel_if_active")
    /\ \E id \in th.ids :
          LET res == cancel_if_active(downloads, id)
              rest == [th EXCEPT !.ids = th.ids \ {id}]
          IN  /\ downloads' = res.db
              /\ threads' =
                    IF res.changed
                    THEN Spawn(Exit(IF downloads[id].status = Downloading
                                    THEN MarkAll(threads, id) ELSE threads, th),
                               [rest EXCEPT !.pc = "send_cancel", !.task = id])
                    ELSE Become(threads, th, rest)
    /\ UNCHANGED <<history, next_id, clock, gatevars, envvars, uivars, iovars>>

\* cancel_all_downloads: manager.send_cancel(id); cancelled += 1
CancelAllSend(th) ==
    /\ At(th, "cancel_all_downloads", "send_cancel")
    /\ LET res == send_cancel(cancel_senders, Exit(threads, th), th.task)
       IN  /\ cancel_senders' = res.senders
           /\ threads' = Spawn(res.threads,
                               [th EXCEPT !.pc = "cancel_if_active", !.task = 0,
                                          !.cnt = th.cnt + 1])
    /\ UNCHANGED <<dbvars, active_count, max_concurrent, envvars, uivars, iovars>>

\* cancel_all_downloads: get_active_count, after the loop
CancelAllCount(th) ==
    /\ At(th, "cancel_all_downloads", "cancel_if_active")
    /\ th.ids = {}
    /\ threads' = Become(threads, th,
                         [th EXCEPT !.pc = "sync_active_count",
                                    !.val = get_active_count(downloads)])
    /\ UNCHANGED <<dbvars, gatevars, envvars, uivars, iovars>>

\* cancel_all_downloads: manager.sync_active_count(actual_active)
CancelAllSync(th) ==
    /\ At(th, "cancel_all_downloads", "sync_active_count")
    /\ active_count' = sync_active_count(active_count, th.val)
    /\ threads' = Exit(threads, th)
    /\ UNCHANGED <<dbvars, max_concurrent, cancel_senders, envvars, uivars, iovars>>

\* a process_next_pending that dispatches one task and returns: if for while
PnpClaim_Once(th) ==
    /\ At(th, "process_next_pending", "claim_next_pending")
    /\ \E res \in claim_next_pending(downloads) :
          /\ downloads' = res.db
          /\ threads' = IF res.id # 0
                        THEN Become(threads, th, Exec(res.id))
                        ELSE Step(th, "release")
    /\ UNCHANGED <<history, next_id, clock, gatevars, envvars, uivars, iovars>>

\* ---------------------------------------------------------------- scheduler
\* process_next_pending: while manager.try_acquire()
ProcessNextPending(th) ==
    /\ At(th, "process_next_pending", "try_acquire")
    /\ LET got == try_acquire(active_count, max_concurrent)
       IN  /\ active_count' = got.count
           /\ threads' = IF got.ok
                         THEN Step(th, "claim_next_pending")
                         ELSE Exit(threads, th)
    /\ UNCHANGED <<dbvars, max_concurrent, cancel_senders, envvars, uivars, iovars>>

\* process_next_pending: claim_next_pending returns Ok; Some(task) spawns the
\* pipeline and loops, None goes on to release the slot
PnpClaim(th) ==
    /\ At(th, "process_next_pending", "claim_next_pending")
    /\ \E res \in claim_next_pending(downloads) :
          /\ downloads' = res.db
          /\ threads' = IF res.id # 0
                        THEN Spawn(Step(th, "try_acquire"), Exec(res.id))
                        ELSE Step(th, "release")
    /\ UNCHANGED <<history, next_id, clock, gatevars, envvars, uivars, iovars>>

\* process_next_pending: claim_next_pending returns Err
PnpClaimErr(th) ==
    /\ At(th, "process_next_pending", "claim_next_pending")
    /\ threads' = Step(th, "release")
    /\ UNCHANGED <<dbvars, gatevars, envvars, uivars, iovars>>

\* process_next_pending: manager.release(); break
PnpRelease(th) ==
    /\ At(th, "process_next_pending", "release")
    /\ active_count' = release(active_count)
    /\ threads' = Exit(threads, th)
    /\ UNCHANGED <<dbvars, max_concurrent, cancel_senders, envvars, uivars, iovars>>

\* a pipeline that does not look at the row it reads at its start
ExecGet_Blind(th) ==
    /\ At(th, "execute_download", "get_download")
    /\ threads' = Step(th, "resolve")
    /\ UNCHANGED <<dbvars, gatevars, envvars, uivars, iovars>>

\* ---------------------------------------------------------------- pipeline
\* execute_download: get_download and the guard on Cancelled
ExecGet(th) ==
    /\ At(th, "execute_download", "get_download")
    /\ threads' = IF th.task \notin Rows \/ downloads[th.task].status = Cancelled
                  THEN Step(th, "release")
                  ELSE Step(th, "resolve")
    /\ UNCHANGED <<dbvars, gatevars, envvars, uivars, iovars>>

\* a pipeline that gives up without a word when the binary is not found
ExecResolve_Silent(th) ==
    /\ At(th, "execute_download", "resolve")
    /\ \/ /\ threads' = Become(threads, th,
                               [th EXCEPT !.pc = "release", !.worker = "missing"])
          /\ UNCHANGED <<downloads, events>>
       \/ /\ threads' = Step(th, "release")
          /\ UNCHANGED <<downloads, events>>
       \/ /\ threads' = StepEmit(th, "register_cancel", "started")
          /\ events' = emit(events, th.task, "started")
          /\ UNCHANGED downloads
    /\ UNCHANGED <<history, next_id, clock, gatevars, envvars, listening, iovars>>

\* execute_download: resolve_ytdlp_path_with_app fails and the row is set
\* Failed, or get_settings fails, or both succeed
ExecResolve(th) ==
    /\ At(th, "execute_download", "resolve")
    /\ \/ /\ downloads' = update_download_status(downloads, th.task, Failed, NotFoundMsg)
          /\ threads' = Become(threads, th,
                               Logged([th EXCEPT !.pc = "release", !.worker = "missing"],
                                      "error"))
          /\ events' = emit(events, th.task, "error")
       \/ /\ threads' = Step(th, "release")
          /\ UNCHANGED <<downloads, events>>
       \/ /\ threads' = StepEmit(th, "register_cancel", "started")
          /\ events' = emit(events, th.task, "started")
          /\ UNCHANGED downloads
    /\ UNCHANGED <<history, next_id, clock, gatevars, envvars, listening, iovars>>

\* execute_download: manager.register_cancel(task_id), then cmd.spawn()
\* starts the worker or fails
ExecRegister(th) ==
    /\ At(th, "execute_download", "register_cancel")
    /\ LET res == register_cancel(cancel_senders, Exit(threads, th), th.task)
       IN  /\ cancel_senders' = res.senders
           /\ \/ threads' = Spawn(res.threads,
                                  [th EXCEPT !.pc = "select", !.rx = "armed",
                                             !.worker = "running",
                                             !.reader = "running"])
              \/ threads' = Spawn(res.threads,
                                  [th EXCEPT !.pc = "spawn_failed", !.rx = "armed"])
    /\ UNCHANGED <<dbvars, active_count, max_concurrent, envvars, uivars, iovars>>

\* execute_download: handle_download_failure after the failed spawn:
\* update_download_status(Failed)
ExecSpawnFailed(th) ==
    /\ At(th, "execute_download", "spawn_failed")
    /\ downloads' = update_download_status(downloads, th.task, Failed, SpawnMsg)
    /\ threads' = StepEmit(th, "unregister_cancel", "error")
    /\ events' = emit(events, th.task, "error")
    /\ UNCHANGED <<history, next_id, clock, gatevars, envvars, listening, iovars>>

\* execute_download, select!: the worker exits with code 0, the child.wait()
\* branch is taken and complete_and_record commits
ExecComplete(th) ==
    /\ At(th, "execute_download", "select")
    /\ LET res == complete_and_record(downloads, history, th.task)
       IN  /\ downloads' = res.db
           /\ history' = res.history
    /\ threads' = Become(threads, th,
                         Logged([th EXCEPT !.pc = "unregister_cancel",
                                           !.worker = "exited", !.reader = "eof"],
                                "completed"))
    /\ events' = emit(events, th.task, "completed")
    /\ UNCHANGED <<next_id, clock, gatevars, envvars, listening, iovars>>

\* the same, but complete_and_record returns Err and its transaction is
\* rolled back
ExecCompleteErr(th) ==
    /\ At(th, "execute_download", "select")
    /\ threads' = Become(threads, th,
                         [th EXCEPT !.pc = "mark_completed", !.worker = "exited",
                                    !.reader = "eof"])
    /\ UNCHANGED <<dbvars, gatevars, envvars, uivars, iovars>>

\* execute_download: the fallback mark_completed
ExecFallback(th) ==
    /\ At(th, "execute_download", "mark_completed")
    /\ downloads' = mark_completed(downloads, th.task)
    /\ threads' = StepEmit(th, "unregister_cancel", "completed")
    /\ events' = emit(events, th.task, "completed")
    /\ UNCHANGED <<history, next_id, clock, gatevars, envvars, listening, iovars>>

\* execute_download: the fallback mark_completed returns Err as well
ExecFallbackErr(th) ==
    /\ At(th, "execute_download", "mark_completed")
    /\ threads' = StepEmit(th, "unregister_cancel", "completed")
    /\ events' = emit(events, th.task, "completed")
    /\ UNCHANGED <<dbvars, gatevars, envvars, listening, iovars>>

\* execute_download, select!: the worker exits with another code, the
\* child.wait() branch is taken and the row is set Failed
ExecExitFailed(th) ==
    /\ At(th, "execute_download", "select")
    /\ downloads' = update_download_status(downloads, th.task, Failed, ExitMsg)
    /\ threads' = Become(threads, th,
                         Logged([th EXCEPT !.pc = "unregister_cancel",
                                           !.worker = "exited", !.reader = "eof"],
                                "error"))
    /\ events' = emit(events, th.task, "error")
    /\ UNCHANGED <<history, next_id, clock, gatevars, envvars, listening, iovars>>

\* execute_download, select!: the cancel_rx.changed() branch: kill the worker,
\* wait for it, update_download_status(Cancelled)
ExecCancel(th) ==
    /\ At(th, "execute_download", "select")
    /\ th.rx = "fired"
    /\ downloads' = update_download_status(downloads, th.task, Cancelled, NULL)
    /\ threads' = Become(threads, th,
                         Logged([th EXCEPT !.pc = "unregister_cancel",
                                           !.worker = "killed", !.reader = "eof"],
                                "cancelled"))
    /\ events' = emit(events, th.task, "cancelled")
    /\ UNCHANGED <<history, next_id, clock, gatevars, envvars, listening, iovars>>

\* execute_download: child.stdout.take() or child.stderr.take() is None: the
\* run goes to unregister_cancel, release and process_next_pending at once
ExecNoStdio(th) ==
    /\ At(th, "execute_download", "select")
    /\ threads' = Become(threads, th,
                         [th EXCEPT !.pc = "unregister_cancel", !.reader = "none"])
    /\ UNCHANGED <<dbvars, gatevars, envvars, uivars, iovars>>

\* execute_download, select!: child.wait() returns Err: the readers are
\* joined and handle_download_failure sets the row Failed
ExecWaitErr(th) ==
    /\ At(th, "execute_download", "select")
    /\ downloads' = update_download_status(downloads, th.task, Failed, WaitMsg)
    /\ threads' = Become(threads, th,
                         Logged([th EXCEPT !.pc = "unregister_cancel", !.reader = "eof"],
                                "error"))
    /\ events' = emit(events, th.task, "error")
    /\ UNCHANGED <<history, next_id, clock, gatevars, envvars, listening, iovars>>

\* execute_download: manager.unregister_cancel(task_id)
ExecUnregister(th) ==
    /\ At(th, "execute_download", "unregister_cancel")
    /\ LET res == unregister_cancel(cancel_senders, Exit(threads, th), th.task)
       IN  /\ cancel_senders' = res.senders
           /\ threads' = Spawn(res.threads, [th EXCEPT !.pc = "release", !.rx = "none"])
    /\ UNCHANGED <<dbvars, active_count, max_concurrent, envvars, uivars, iovars>>

\* execute_download: manager.release(); process_next_pending(app)
ExecRelease(th) ==
    /\ At(th, "execute_download", "release")
    /\ active_count' = release(active_count)
    /\ threads' = Become(threads, th, Pnp)
    /\ UNCHANGED <<dbvars, max_concurrent, cancel_senders, envvars, uivars, iovars>>

\* ---------------------------------------------------------------- panics
\* execute_download panics before its manager.release(): the inner task ends
\* with a JoinError, what it owned is dropped
ExecPanic(th) ==
    /\ IsExec(th)
    /\ th \in Running
    /\ th.pc \in {"get_download", "resolve", "register_cancel", "spawn_failed",
                  "select", "mark_completed", "unregister_cancel", "release"}
    /\ threads' = Become(threads, th, [th EXCEPT !.pc = "panicked", !.rx = "none"])
    /\ UNCHANGED <<dbvars, gatevars, envvars, uivars, iovars>>

\* execute_download panics after its manager.release(), in the
\* process_next_pending it calls last
ExecTailPanic(th) ==
    /\ At(th, "execute_download", "release")
    /\ active_count' = release(active_count)
    /\ threads' = Step(th, "panicked_tail")
    /\ UNCHANGED <<dbvars, max_concurrent, cancel_senders, envvars, uivars, iovars>>

\* the wrapper of the spawned pipeline, if let Err(e) = result:
\* manager.release(); process_next_pending(app_panic_guard)
GuardRelease(th) ==
    /\ IsExec(th)
    /\ th \in Running
    /\ th.pc \in {"panicked", "panicked_tail"}
    /\ active_count' = release(active_count)
    /\ threads' = Become(threads, th, Pnp)
    /\ UNCHANGED <<dbvars, max_concurrent, cancel_senders, envvars, uivars, iovars>>

\* ---------------------------------------------------------------- the stdout reader
\* a pipeline that goes on without awaiting the reader task
stdout_not_awaited(th) == TRUE

\* stdout_handle.await has returned: the reader task has ended
stdout_joined(th) == th.reader = "eof"

\* the stdout reader task: a progress line is parsed and a progress event is
\* emitted
ReaderProgress(th) ==
    /\ th \in Running
    /\ IsExec(th)
    /\ th.reader = "running"
    /\ threads' = Become(threads, th, Logged(th, "progress"))
    /\ events' = emit(events, th.task, "progress")
    /\ UNCHANGED <<dbvars, gatevars, envvars, listening, iovars>>

\* the stdout reader task: read_until returns Ok(0) and the task ends
ReaderEof(th) ==
    /\ th \in Running
    /\ IsExec(th)
    /\ th.reader = "running"
    /\ threads' = Become(threads, th, [th EXCEPT !.reader = "eof"])
    /\ UNCHANGED <<dbvars, gatevars, envvars, uivars, iovars>>

\* execute_download, select!: child.wait() returns Ok(status)
ExecWaitOk(th) ==
    /\ At(th, "execute_download", "select")
    /\ threads' = Become(threads, th, [th EXCEPT !.pc = "join", !.worker = "exited"])
    /\ UNCHANGED <<dbvars, gatevars, envvars, uivars, iovars>>

\* execute_download, select!: cancel_rx.changed() returns; child.kill() and
\* child.wait()
ExecKill(th) ==
    /\ At(th, "execute_download", "select")
    /\ th.rx = "fired"
    /\ threads' = Become(threads, th,
                         [th EXCEPT !.pc = "join_cancel", !.worker = "killed"])
    /\ UNCHANGED <<dbvars, gatevars, envvars, uivars, iovars>>

\* execute_download after stdout_handle.await: status.success(),
\* complete_and_record and the completed event
ExecJoinedComplete(th) ==
    /\ At(th, "execute_download", "join")
    /\ stdout_joined(th)
    /\ LET res == complete_and_record(downloads, history, th.task)
       IN  /\ downloads' = res.db
           /\ history' = res.history
    /\ threads' = StepEmit(th, "unregister_cancel", "completed")
    /\ events' = emit(events, th.task, "completed")
    /\ UNCHANGED <<next_id, clock, gatevars, envvars, listening, iovars>>

\* execute_download after stdout_handle.await: the exit code is not 0,
\* update_download_status(Failed) and the error event
ExecJoinedFailed(th) ==
    /\ At(th, "execute_download", "join")
    /\ stdout_joined(th)
    /\ downloads' = update_download_status(downloads, th.task, Failed, ExitMsg)
    /\ threads' = StepEmit(th, "unregister_cancel", "error")
    /\ events' = emit(events, th.task, "error")
    /\ UNCHANGED <<history, next_id, clock, gatevars, envvars, listening, iovars>>

\* execute_download, cancel branch after stdout_handle.await:
\* update_download_status(Cancelled) and the cancelled event
ExecJoinedCancelled(th) ==
    /\ At(th, "execute_download", "join_cancel")
    /\ stdout_joined(th)
    /\ downloads' = update_download_status(downloads, th.task, Cancelled, NULL)
    /\ threads' = StepEmit(th, "unregister_cancel", "cancelled")
    /\ events' = emit(events, th.task, "cancelled")
    /\ UNCHANGED <<history, next_id, clock, gatevars, envvars, listening, iovars>>

\* ---------------------------------------------------------------- restart
\* the process is killed: every thread and the gate are gone, the store stays
Crash ==
    /\ phase = "up"
    /\ crashes < MaxCrashes
    /\ phase' = "down"
    /\ crashes' = crashes + 1
    /\ threads' = EmptyBag
    /\ active_count' = 0
    /\ cancel_senders' = {}
    /\ UNCHANGED <<dbvars, max_concurrent, ops, reset_count, stale_pending, uivars, iovars>>

\* a setup without the delayed process_next_pending
Startup_NoKick ==
    /\ phase = "down"
    /\ phase' = "up"
    /\ LET res == reset_stale_downloads(downloads)
       IN  /\ downloads' = res.db
           /\ reset_count' = res.rows
    /\ stale_pending' = {r \in Rows : downloads[r].status = Pending}
    /\ active_count' = 0
    /\ max_concurrent' = clamp(max_concurrent)
    /\ cancel_senders' = {}
    /\ threads' = EmptyBag
    /\ UNCHANGED <<history, next_id, clock, crashes, ops, uivars, iovars>>

\* run (setup): reset_stale_downloads, DownloadManager::new and the delayed
\* process_next_pending
Startup ==
    /\ phase = "down"
    /\ phase' = "up"
    /\ LET res == reset_stale_downloads(downloads)
       IN  /\ downloads' = res.db
           /\ reset_count' = res.rows
    /\ stale_pending' = {r \in Rows : downloads[r].status = Pending}
    /\ active_count' = 0
    /\ max_concurrent' = clamp(max_concurrent)
    /\ cancel_senders' = {}
    /\ threads' = SetToBag({Pnp})
    /\ UNCHANGED <<history, next_id, clock, crashes, ops, uivars, iovars>>

\* ---------------------------------------------------------------- behaviours
\* a fresh installation: empty tables, the gate as setup builds it, and the
\* delayed process_next_pending of setup has found nothing to claim
Init ==
    /\ downloads = <<>>
    /\ history = 0
    /\ next_id = 1
    /\ clock = 1
    /\ active_count = 0
    /\ max_concurrent \in {clamp(n) : n \in 1..MaxCeiling}
    /\ cancel_senders = {}
    /\ threads = EmptyBag
    /\ phase = "up"
    /\ crashes = 0
    /\ ops = 0
    /\ reset_count = 0
    /\ stale_pending = {}
    /\ listening = FALSE
    /\ events = NoEvents
    /\ ReadersIdle

Schedule ==
    \/ \E th \in Running : AddAcquire(th)
    \/ \E th \in Running : AddDispatch(th)
    \/ \E th \in Running : ProcessNextPending(th)
    \/ \E th \in Running : PnpClaim(th)
    \/ \E th \in Running : PnpRelease(th)

Pipeline ==
    \/ \E th \in Running : ExecGet(th)
    \/ \E th \in Running : ExecResolve(th)
    \/ \E th \in Running : ExecRegister(th)
    \/ \E th \in Running : ExecSpawnFailed(th)
    \/ \E th \in Running : ExecComplete(th)
    \/ \E th \in Running : ExecExitFailed(th)
    \/ \E th \in Running : ExecCancel(th)
    \/ \E th \in Running : ExecUnregister(th)
    \/ \E th \in Running : ExecRelease(th)

Cancel ==
    \/ \E id \in TaskIds : CancelDownload(id)
    \/ \E th \in Running : CancelSend(th)
    \/ \E th \in Running : CancelReturn(th)

Retry ==
    \/ \E id \in TaskIds : RetryDownload(id)
    \/ \E th \in Running : RetrySetPending(th)
    \/ \E th \in Running : RetryAcquire(th)
    \/ \E th \in Running : RetryDispatch(th)

CancelAll ==
    \/ CancelAllDownloads
    \/ \E th \in Running : CancelAllCancel(th)
    \/ \E th \in Running : CancelAllSend(th)
    \/ \E th \in Running : CancelAllCount(th)
    \/ \E th \in Running : CancelAllSync(th)

StorageError ==
    \/ \E th \in Running : AddDispatchErr(th)
    \/ \E th \in Running : AddRelease(th)
    \/ \E th \in Running : RetryDispatchErr(th)
    \/ \E th \in Running : PnpClaimErr(th)
    \/ \E th \in Running : ExecCompleteErr(th)
    \/ \E th \in Running : ExecFallback(th)
    \/ \E th \in Running : ExecFallbackErr(th)

\* the commands, the scheduler and the pipelines of one run of the process
Next == AddToQueue \/ Schedule \/ Pipeline \/ Cancel \/ Retry \/ CancelAll

Spec == Init /\ [][Next]_vars

\* the same with ungraceful stops and restarts of the process
NextRestart == AddToQueue \/ Schedule \/ Pipeline \/ Cancel \/ Crash \/ Startup

RestartSpec == Init /\ [][NextRestart]_vars

\* no pipeline has ended since the process started for the first time: every
\* row is Pending or Downloading, and every Downloading row has its pipeline,
\* which has not left the select
NoneEnded ==
    /\ crashes = 0
    /\ \A th \in Running :
          IsExec(th) => th.pc \in {"get_download", "resolve", "register_cancel", "select"}
    /\ \A id \in Rows :
          /\ Status(id) \in {Pending, Downloading}
          /\ Status(id) = Downloading => Owners(id) >= 1

\* add_to_queue called in a burst, before any pipeline ends
AddBurst == NoneEnded /\ AddToQueue

\* a burst of add_to_queue calls, then scheduling and pipelines with no further
\* command, across one restart; the runtime keeps running what was spawned and
\* every worker exits in the end
NextLive == AddBurst \/ Schedule \/ Pipeline \/ Crash \/ Startup

LiveSpec ==
    Init /\ [][NextLive]_vars /\ WF_vars(Schedule \/ Pipeline \/ Startup)

\* claim_next_pending alone: Callers scheduler loops, each with a slot, are
\* about to claim from a table of any content
MaxRows == 3
MaxCallers == 2

Tables ==
    UNION {[1..n -> [status : {Pending, Downloading, Completed, Failed, Cancelled},
                     error_message : {NULL},
                     created_at : 1..n]] : n \in 0..MaxRows}

ClaimInit ==
    /\ downloads \in {d \in Tables :
                        \A r \in DOMAIN d :
                           /\ r = 1 => d[r].created_at = 1
                           /\ r > 1 => d[r].created_at - d[r - 1].created_at \in {0, 1}}
    /\ history = 0
    /\ next_id = Len(downloads) + 1
    /\ clock = IF downloads = <<>> THEN 1 ELSE downloads[Len(downloads)].created_at
    /\ \E callers \in 1..MaxCallers :
          /\ active_count = callers
          /\ max_concurrent = clamp(callers)
          /\ threads = [th \in {[Pnp EXCEPT !.pc = "claim_next_pending"]} |-> callers]
    /\ cancel_senders = {}
    /\ phase = "up"
    /\ crashes = 0
    /\ ops = 0
    /\ reset_count = 0
    /\ stale_pending = {}
    /\ listening = FALSE
    /\ events = NoEvents
    /\ ReadersIdle

NextClaim == \E th \in Running : PnpClaim(th)

ClaimSpec == ClaimInit /\ [][NextClaim]_vars

Mishap ==
    \/ \E th \in Running : ExecNoStdio(th)
    \/ \E th \in Running : ExecWaitErr(th)

\* the commands but cancel_all_downloads, the scheduler and the pipelines on
\* every exit path, without storage errors
NextSlot == AddToQueue \/ Schedule \/ Pipeline \/ Mishap \/ Cancel \/ Retry

SlotSpec == Init /\ [][NextSlot]_vars

Panic ==
    \/ \E th \in Running : ExecPanic(th)
    \/ \E th \in Running : ExecTailPanic(th)
    \/ \E th \in Running : GuardRelease(th)

\* enqueueing, scheduling and pipelines that may panic
NextPanic == AddToQueue \/ Schedule \/ Pipeline \/ Panic

PanicSpec == Init /\ [][NextPanic]_vars

\* the steps of a pipeline before its worker runs and after its last event
Stages ==
    \/ \E th \in Running : ExecGet(th)
    \/ \E th \in Running : ExecResolve(th)
    \/ \E th \in Running : ExecRegister(th)
    \/ \E th \in Running : ExecSpawnFailed(th)
    \/ \E th \in Running : ExecUnregister(th)
    \/ \E th \in Running : ExecRelease(th)

\* the select, the stdout reader and the joins, step by step
Stream ==
    \/ \E th \in Running : ReaderProgress(th)
    \/ \E th \in Running : ReaderEof(th)
    \/ \E th \in Running : ExecWaitOk(th)
    \/ \E th \in Running : ExecKill(th)
    \/ \E th \in Running : ExecJoinedComplete(th)
    \/ \E th \in Running : ExecJoinedFailed(th)
    \/ \E th \in Running : ExecJoinedCancelled(th)

\* a fresh installation whose download-events are recorded
EventInit ==
    /\ downloads = <<>>
    /\ history = 0
    /\ next_id = 1
    /\ clock = 1
    /\ active_count = 0
    /\ max_concurrent \in {clamp(n) : n \in 1..MaxCeiling}
    /\ cancel_senders = {}
    /\ threads = EmptyBag
    /\ phase = "up"
    /\ crashes = 0
    /\ ops = 0
    /\ reset_count = 0
    /\ stale_pending = {}
    /\ listening = TRUE
    /\ events = NoEvents
    /\ ReadersIdle

\* add_to_queue, cancel_download, the scheduler and the pipelines with their
\* stdout readers, every download-event recorded
NextEvent == AddToQueue \/ Schedule \/ Stages \/ Stream \/ Cancel

EventSpec == EventInit /\ [][NextEvent]_vars

\* ---------------------------------------------------------------- the gate, step by step
MaxAcquires == 3
MaxReleases == 2

\* a store in place of the compare-and-swap
store_unchecked(count, current, new) == [ok |-> TRUE, count |-> new]

\* AtomicU32::compare_exchange(current, new): the value it leaves and is_ok()
compare_exchange(count, current, new) ==
    IF count = current
    THEN [ok |-> TRUE, count |-> new]
    ELSE [ok |-> FALSE, count |-> count]

\* u32::wrapping_sub with the largest value standing for u32::MAX
wrapping_sub(n, k) == IF n >= k THEN n - k ELSE 2147483647

\* u32::saturating_sub
saturating_sub(n, k) == IF n >= k THEN n - k ELSE 0

\* a call of try_acquire or release; cnt keeps the count at the time of the call
Call(kind, count) == [Thread(kind, "load", 0) EXCEPT !.cnt = count]

\* try_acquire: let current = self.active_count.load(SeqCst)
AcquireLoad(th) ==
    /\ At(th, "try_acquire", "load")
    /\ threads' = Become(threads, th, [th EXCEPT !.pc = "check", !.val = active_count])
    /\ UNCHANGED <<dbvars, gatevars, envvars, uivars, iovars>>

\* try_acquire: if current >= self.max_concurrent.load(SeqCst) { return false }
AcquireCheck(th) ==
    /\ At(th, "try_acquire", "check")
    /\ threads' = IF th.val >= max_concurrent
                  THEN Step(th, "false")
                  ELSE Step(th, "compare_exchange")
    /\ UNCHANGED <<dbvars, gatevars, envvars, uivars, iovars>>

\* try_acquire: compare_exchange(current, current + 1): return true, or loop
AcquireSwap(th) ==
    /\ At(th, "try_acquire", "compare_exchange")
    /\ LET res == compare_exchange(active_count, th.val, th.val + 1)
       IN  /\ active_count' = res.count
           /\ threads' = IF res.ok THEN Step(th, "true") ELSE Step(th, "load")
    /\ UNCHANGED <<dbvars, max_concurrent, cancel_senders, envvars, uivars, iovars>>

\* release, fetch_update: let prev = self.load(fetch_order)
ReleaseLoad(th) ==
    /\ At(th, "release", "load")
    /\ threads' = Become(threads, th,
                         [th EXCEPT !.pc = "compare_exchange", !.val = active_count])
    /\ UNCHANGED <<dbvars, gatevars, envvars, uivars, iovars>>

\* release, fetch_update: compare_exchange_weak(prev, prev.saturating_sub(1)):
\* return, or loop with the value found
ReleaseSwap(th) ==
    /\ At(th, "release", "compare_exchange")
    /\ LET res == compare_exchange(active_count, th.val, saturating_sub(th.val, 1))
       IN  /\ active_count' = res.count
           /\ threads' = IF res.ok THEN Step(th, "done") ELSE Step(th, "load")
    /\ UNCHANGED <<dbvars, max_concurrent, cancel_senders, envvars, uivars, iovars>>

Acquire ==
    \/ \E th \in Running : AcquireLoad(th)
    \/ \E th \in Running : AcquireCheck(th)
    \/ \E th \in Running : AcquireSwap(th)

Release ==
    \/ \E th \in Running : ReleaseLoad(th)
    \/ \E th \in Running : ReleaseSwap(th)

\* the gate alone: a ceiling, a count c below or at it, k calls of try_acquire
\* and r calls of release, all made at once
AtomicInit ==
    /\ downloads = <<>>
    /\ history = 0
    /\ next_id = 1
    /\ clock = 1
    /\ max_concurrent \in {clamp(n) : n \in 1..MaxCeiling}
    /\ active_count \in 0..max_concurrent
    /\ cancel_senders = {}
    /\ \E k \in 0..MaxAcquires : \E r \in 0..MaxReleases :
          threads = (IF k > 0 THEN Call("try_acquire", active_count) :> k ELSE EmptyBag)
                    (+) (IF r > 0 THEN Call("release", active_count) :> r ELSE EmptyBag)
    /\ phase = "up"
    /\ crashes = 0
    /\ ops = 0
    /\ reset_count = 0
    /\ stale_pending = {}
    /\ listening = FALSE
    /\ events = NoEvents
    /\ ReadersIdle

NextAtomic == Acquire \/ Release

AtomicSpec == AtomicInit /\ [][NextAtomic]_vars

\* ---------------------------------------------------------------- the ceiling
\* the values of settings.max_concurrent tried: below the range, its lower end,
\* a small ceiling, and above the range
Requests == {MinConcurrent - 1, MinConcurrent, MaxCeiling, MaxConcurrent + 1}

\* update_settings(settings): manager.set_max_concurrent(settings.max_concurrent)
UpdateSettings(n) ==
    /\ phase = "up"
    /\ ops < MaxOps
    /\ max_concurrent' = set_max_concurrent(n)
    /\ ops' = ops + 1
    /\ UNCHANGED <<dbvars, active_count, cancel_senders, threads, procvars, uivars, iovars>>

Settings == \E n \in Requests : UpdateSettings(n)

\* a fresh installation whose settings hold any of the values tried:
\* DownloadManager::new(settings.max_concurrent)
CeilingInit ==
    /\ downloads = <<>>
    /\ history = 0
    /\ next_id = 1
    /\ clock = 1
    /\ active_count = 0
    /\ max_concurrent \in {clamp(n) : n \in Requests}
    /\ cancel_senders = {}
    /\ threads = EmptyBag
    /\ phase = "up"
    /\ crashes = 0
    /\ ops = 0
    /\ reset_count = 0
    /\ stale_pending = {}
    /\ listening = FALSE
    /\ events = NoEvents
    /\ ReadersIdle

\* add_to_queue and update_settings with the scheduler and the pipelines
NextCeiling == AddToQueue \/ Schedule \/ Pipeline \/ Settings

CeilingSpec == CeilingInit /\ [][NextCeiling]_vars

\* ---------------------------------------------------------------- shutdown
\* run, RunEvent::Exit (or set_minimize_to_tray(false)): the handler is called
ExitRequested ==
    /\ CmdRoom
    /\ threads' = Spawn(threads, Cmd("cancel_all", "drain", 0))
    /\ ops' = ops + 1
    /\ UNCHANGED <<dbvars, gatevars, procvars, uivars, iovars>>

\* manager.cancel_all(), and the handler returns
ExitCancelAll(th) ==
    /\ At(th, "cancel_all", "drain")
    /\ LET res == cancel_all(cancel_senders, Exit(threads, th))
       IN  /\ cancel_senders' = res.senders
           /\ threads' = res.threads
    /\ UNCHANGED <<dbvars, active_count, max_concurrent, envvars, uivars, iovars>>

Shutdown ==
    \/ ExitRequested
    \/ \E th \in Running : ExitCancelAll(th)

\* add_to_queue, the scheduler and the pipelines, with the cancel_all of an
\* application that is asked to exit
NextShutdown == AddToQueue \/ Schedule \/ Pipeline \/ Shutdown

ShutdownSpec == Init /\ [][NextShutdown]_vars

\* ---------------------------------------------------------------- clear completed
\* clear_completed: db.clear_completed(); cnt is the number it returns
ClearCompleted ==
    /\ CmdRoom
    /\ LET res == clear_completed(downloads)
       IN  /\ downloads' = res.db
           /\ threads' = Spawn(threads,
                               [Cmd("clear_completed", "return", 0)
                                   EXCEPT !.cnt = res.deleted])
    /\ ops' = ops + 1
    /\ UNCHANGED <<history, next_id, clock, gatevars, procvars, uivars, iovars>>

\* clear_completed: the command returns the number to the frontend
ClearReturn(th) ==
    /\ At(th, "clear_completed", "return")
    /\ threads' = Exit(threads, th)
    /\ UNCHANGED <<dbvars, gatevars, envvars, uivars, iovars>>

Clear ==
    \/ ClearCompleted
    \/ \E th \in Running : ClearReturn(th)

\* add_to_queue, cancel_download, retry_download and clear_completed with the
\* scheduler and the pipelines
NextClear == AddToQueue \/ Schedule \/ Pipeline \/ Cancel \/ Retry \/ Clear

ClearSpec == Init /\ [][NextClear]_vars

\* the same without retry_download, every download-event recorded
NextVanish == AddToQueue \/ Schedule \/ Pipeline \/ Cancel \/ Clear

VanishSpec == EventInit /\ [][NextVanish]_vars

\* retry_download called on a Failed task
RetryFailed(id) == id \in Rows /\ Status(id) = Failed /\ RetryDownload(id)

RetrySteps ==
    \/ \E th \in Running : RetrySetPending(th)
    \/ \E th \in Running : RetryAcquire(th)
    \/ \E th \in Running : RetryDispatch(th)

\* enqueueing and retrying of Failed tasks; the runtime keeps running what was
\* spawned and every worker exits in the end
NextRetry ==
    \/ AddToQueue
    \/ Schedule
    \/ Pipeline
    \/ \E id \in TaskIds : RetryFailed(id)
    \/ RetrySteps

RetrySpec ==
    Init /\ [][NextRetry]_vars /\ WF_vars(Schedule \/ Pipeline \/ RetrySteps)

\* the tables insert_download can have built: created_at never decreases
\* with the id
SortedTables ==
    {d \in Tables :
        \A r \in DOMAIN d :
           /\ r = 1 => d[r].created_at = 1
           /\ r > 1 => d[r].created_at - d[r - 1].created_at \in {0, 1}}

\* a pipeline of task id waiting in its select!, the worker running
Selecting(id) ==
    [Exec(id) EXCEPT !.pc = "select", !.rx = "armed", !.worker = "running",
                     !.reader = "running"]

\* cancel_download alone, called on a table of any content; some of the
\* Downloading rows have their pipeline waiting in its select!
CancelInit ==
    /\ downloads \in SortedTables
    /\ history = 0
    /\ next_id = Len(downloads) + 1
    /\ clock = IF downloads = <<>> THEN 1 ELSE downloads[Len(downloads)].created_at
    /\ \E live \in SUBSET {r \in DOMAIN downloads : downloads[r].status = Downloading} :
          /\ cancel_senders = live
          /\ threads = SetToBag({Selecting(r) : r \in live})
          /\ active_count = Cardinality(live)
    /\ max_concurrent = clamp(MaxRows)
    /\ phase = "up"
    /\ crashes = 0
    /\ ops = 0
    /\ reset_count = 0
    /\ stale_pending = {}
    /\ listening = FALSE
    /\ events = NoEvents
    /\ ReadersIdle

CancelSpec == CancelInit /\ [][Cancel]_vars

\* enqueueing, retrying, scheduling and pipelines with storage errors
NextFault == AddToQueue \/ Schedule \/ Pipeline \/ Retry \/ StorageError

FaultSpec == Init /\ [][NextFault]_vars

\* ---------------------------------------------------------------- the stderr buffer
MaxChars == 2
MaxBytes == 4
MaxAppended == 7

\* bytes: two ASCII letters, the line feed, and the two bytes of one
\* character that is encoded in two bytes
NewLine == "\n"
Lead == "0xC3"
Cont == "0xA9"
Chars == {<<"a">>, <<"b">>, <<Lead, Cont>>}

\* the lines the reader hands over: String::from_utf8_lossy(&buf).trim_end()
RECURSIVE Strings(_)
Strings(n) ==
    IF n = 0 THEN {<<>>}
    ELSE Strings(n - 1) \cup {s \o c : s \in Strings(n - 1), c \in Chars}

ErrLines == Strings(MaxChars)

\* str::is_char_boundary(index), index counted from 0
is_char_boundary(s, index) ==
    \/ index = 0
    \/ index = Len(s)
    \/ index < Len(s) /\ s[index + 1] # Cont

\* the least element of a set of numbers
Least(S) == CHOOSE x \in S : \A y \in S : x <= y

\* an append_limited that cuts at the back and keeps the oldest bytes
append_limited_front(buffer, l, max) ==
    LET joined == (IF buffer # <<>> THEN Append(buffer, NewLine) ELSE buffer) \o l
    IN  IF Len(joined) > max THEN SubSeq(joined, 1, max) ELSE joined

\* append_limited(buffer, line, max_bytes)
append_limited(buffer, l, max) ==
    LET joined == (IF buffer # <<>> THEN Append(buffer, NewLine) ELSE buffer) \o l
    IN  IF Len(joined) > max
        THEN LET overflow == Len(joined) - max
                 starts == {idx \in 0..(Len(joined) - 1) :
                               is_char_boundary(joined, idx) /\ idx > overflow}
                 cut_at == IF is_char_boundary(joined, overflow) THEN overflow
                           ELSE IF starts # {} THEN Least(starts)
                           ELSE Len(joined)
             IN  SubSeq(joined, cut_at + 1, Len(joined))
        ELSE joined

\* the stderr reader: read_until returns a line and it is appended to output
StderrLine(l) ==
    /\ Len(appended) + Len(l) < MaxAppended
    /\ output' = append_limited(output, l, max_bytes)
    /\ appended' = (IF appended # <<>> THEN Append(appended, NewLine) ELSE appended) \o l
    /\ UNCHANGED <<dbvars, gatevars, threads, envvars, uivars, max_bytes, outvars>>

\* the stderr reader alone, with a buffer of any small capacity
AppendInit ==
    /\ downloads = <<>>
    /\ history = 0
    /\ next_id = 1
    /\ clock = 1
    /\ active_count = 0
    /\ max_concurrent = clamp(1)
    /\ cancel_senders = {}
    /\ threads = EmptyBag
    /\ phase = "up"
    /\ crashes = 0
    /\ ops = 0
    /\ reset_count = 0
    /\ stale_pending = {}
    /\ listening = FALSE
    /\ events = NoEvents
    /\ output = <<>>
    /\ appended = <<>>
    /\ max_bytes \in 0..MaxBytes
    /\ line = <<>>
    /\ progress_info = None
    /\ last_progress_percent = None
    /\ progress = None

NextAppend == \E l \in ErrLines : StderrLine(l)

AppendSpec == AppendInit /\ [][NextAppend]_vars

\* ---------------------------------------------------------------- the progress lines
MaxPieces == 5

\* what a line of the worker's stdout is made of
Space == " "
Digits == {"4"}
Pieces == {<<"4">>, <<".">>, <<"%">>, <<"|">>, <<Space>>, <<"N", "/", "A">>,
           <<"U", "n", "k", "n", "o", "w", "n">>, <<"x">>}

RECURSIVE Texts(_)
Texts(n) ==
    IF n = 0 THEN {<<>>}
    ELSE Texts(n - 1) \cup {s \o p : s \in Texts(n - 1), p \in Pieces}

OutLines == Texts(MaxPieces)

\* str::trim
RECURSIVE trim(_)
trim(s) ==
    IF s = <<>> THEN s
    ELSE IF s[1] = Space THEN trim(Tail(s))
    ELSE IF s[Len(s)] = Space THEN trim(SubSeq(s, 1, Len(s) - 1))
    ELSE s

\* the length of the longest prefix of s made of the characters in class
RECURSIVE span(_, _)
span(s, class) ==
    IF s # <<>> /\ s[1] \in class THEN 1 + span(Tail(s), class) ELSE 0

\* the characters of s that are not in class
Outside(class, s) == {s[i] : i \in 1..Len(s)} \ class

\* PROGRESS_RE.captures(line): ^([0-9.]+)%\|([^|]*)\|([^|]*)$
captures(s) ==
    LET n == span(s, Digits \cup {"."})
        rest == SubSeq(s, n + 3, Len(s))
        k == span(rest, Outside({"|"}, rest))
    IN  IF /\ n >= 1
           /\ Len(s) >= n + 3
           /\ s[n + 1] = "%"
           /\ s[n + 2] = "|"
           /\ k < Len(rest)
           /\ span(SubSeq(rest, k + 2, Len(rest)), Outside({"|"}, rest)) = Len(rest) - k - 1
        THEN Some(<<SubSeq(s, 1, n), SubSeq(rest, 1, k), SubSeq(rest, k + 2, Len(rest))>>)
        ELSE None

\* str::parse::<f32> on a string of digits and dots
parse_f32(s) ==
    IF /\ \E i \in 1..Len(s) : s[i] \in Digits
       /\ Cardinality({i \in 1..Len(s) : s[i] = "."}) <= 1
    THEN Some(s) ELSE None

\* a field of the line as an Option
field(s) ==
    IF s = <<>> \/ s = <<"N", "/", "A">> \/ s = <<"U", "n", "k", "n", "o", "w", "n">>
    THEN None ELSE Some(s)

\* a parse_progress_line that takes any percent the pattern lets through
parse_progress_line_unparsed(l) ==
    LET caps == captures(trim(l))
    IN  IF caps = None THEN None
        ELSE Some([percent |-> caps[1][1],
                   speed |-> field(trim(caps[1][2])),
                   eta |-> field(trim(caps[1][3]))])

\* parse_progress_line(line)
parse_progress_line(l) ==
    LET caps == captures(trim(l))
    IN  IF caps = None THEN None
        ELSE LET percent == parse_f32(caps[1][1])
             IN  IF percent = None THEN None
                 ELSE Some([percent |-> percent[1],
                            speed |-> field(trim(caps[1][2])),
                            eta |-> field(trim(caps[1][3]))])

\* Option<String>::as_deref().unwrap_or("...")
unwrap_or_dots(opt) == IF opt = None THEN <<".", ".", ".">> ELSE opt[1]

\* the stdout reader: one turn of its loop on the line it has read:
\* parse_progress_line, should_update, the progress event and
\* update_download_progress
StdoutLine(th) ==
    /\ th \in Running
    /\ IsExec(th)
    /\ th.reader = "running"
    /\ LET info == parse_progress_line(line)
       IN  /\ progress_info' = info
           /\ \/ /\ info = None \/ last_progress_percent # None
                 /\ UNCHANGED <<threads, events, last_progress_percent, progress>>
              \/ /\ info # None
                 /\ threads' = Become(threads, th, Logged(th, "progress"))
                 /\ events' = emit(events, th.task, "progress")
                 /\ progress' = Some([progress |-> info[1].percent,
                                      speed |-> unwrap_or_dots(info[1].speed),
                                      eta |-> unwrap_or_dots(info[1].eta)])
                 /\ last_progress_percent' = Some(info[1].percent)
    /\ UNCHANGED <<dbvars, gatevars, envvars, listening, errvars, line>>

\* one pipeline waits in its select!, its stdout reader has read a line; it
\* has or has not made an update before
ParseInit ==
    /\ downloads = update_download_status(insert_download(<<>>, 1, 1), 1, Downloading, NULL)
    /\ history = 0
    /\ next_id = 2
    /\ clock = 1
    /\ active_count = 1
    /\ max_concurrent = clamp(1)
    /\ cancel_senders = {1}
    /\ phase = "up"
    /\ crashes = 0
    /\ ops = 0
    /\ reset_count = 0
    /\ stale_pending = {}
    /\ listening = TRUE
    /\ output = <<>>
    /\ appended = <<>>
    /\ max_bytes = STDERR_BUFFER_LIMIT_BYTES
    /\ line \in OutLines
    /\ progress_info = None
    /\ \/ /\ last_progress_percent = None
          /\ progress = None
          /\ events = NoEvents
          /\ threads = SetToBag({[Selecting(1) EXCEPT !.log = <<"started">>]})
       \/ /\ last_progress_percent = Some(<<"4">>)
          /\ progress = Some([progress |-> <<"4">>, speed |-> <<"x">>, eta |-> <<"x">>])
          /\ events = [NoEvents EXCEPT ![1] = {"started", "progress"}]
          /\ threads = SetToBag({[Selecting(1) EXCEPT !.log = <<"started", "progress">>]})

NextParse == \E th \in Running : StdoutLine(th)

ParseSpec == ParseInit /\ [][NextParse]_vars

\* ---------------------------------------------------------------- overlapping commands
\* cancel_download invoked while another command is still in progress: the
\* runtime serves commands on several threads
CancelOverlapping(id) ==
    /\ phase = "up"
    /\ ops < MaxOps
    /\ Count(threads, IsCmd) <= MaxCmds
    /\ LET res == cancel_if_active(downloads, id)
       IN  /\ downloads' = res.db
           /\ threads' =
                 IF res.changed
                 THEN Spawn(IF downloads[id].status = Downloading
                            THEN MarkAll(threads, id) ELSE threads,
                            Cmd("cancel_download", "send_cancel", id))
                 ELSE Spawn(threads, Cmd("cancel_download", "return", id))
    /\ ops' = ops + 1
    /\ UNCHANGED <<history, next_id, clock, gatevars, procvars, uivars, iovars>>

CancelOverlap ==
    \/ \E id \in TaskIds : CancelOverlapping(id)
    \/ \E th \in Running : CancelSend(th)
    \/ \E th \in Running : CancelReturn(th)

NextOverlap == AddToQueue \/ Schedule \/ Pipeline \/ CancelOverlap

OverlapSpec == Init /\ [][NextOverlap]_vars

\* cancel_all_downloads invoked while another command is still in progress
CancelAllOverlapping ==
    /\ phase = "up"
    /\ ops < MaxOps
    /\ Count(threads, IsCmd) <= MaxCmds
    /\ threads' = Spawn(threads,
                        [Cmd("cancel_all_downloads", "cancel_if_active", 0)
                            EXCEPT !.ids = get_cancellable_ids(downloads),
                                   !.snap = get_cancellable_ids(downloads)])
    /\ ops' = ops + 1
    /\ UNCHANGED <<dbvars, gatevars, procvars, uivars, iovars>>

CancelAllOverlap ==
    \/ CancelAllOverlapping
    \/ \E th \in Running : CancelAllCancel(th)
    \/ \E th \in Running : CancelAllSend(th)
    \/ \E th \in Running : CancelAllCount(th)
    \/ \E th \in Running : CancelAllSync(th)

NextSweep == AddToQueue \/ Schedule \/ Pipeline \/ CancelAllOverlap

SweepSpec == Init /\ [][NextSweep]_vars

\* ---------------------------------------------------------------- one scheduler loop
\* one process_next_pending runs alone on a table of any content: every
\* Downloading row has its pipeline waiting in its select!, and no command
\* and no pipeline takes a step
DrainInit ==
    /\ downloads \in SortedTables
    /\ history = 0
    /\ next_id = Len(downloads) + 1
    /\ clock = IF downloads = <<>> THEN 1 ELSE downloads[Len(downloads)].created_at
    /\ LET live == {r \in DOMAIN downloads : downloads[r].status = Downloading}
       IN  /\ cancel_senders = live
           /\ threads = Spawn(SetToBag({Selecting(r) : r \in live}), Pnp)
           /\ active_count = Cardinality(live)
    /\ max_concurrent \in {clamp(n) : n \in 1..MaxCeiling}
    /\ active_count <= max_concurrent
    /\ phase = "up"
    /\ crashes = 0
    /\ ops = 0
    /\ reset_count = 0
    /\ stale_pending = {}
    /\ listening = FALSE
    /\ events = NoEvents
    /\ ReadersIdle

NextDrain ==
    \/ \E th \in Running : ProcessNextPending(th)
    \/ \E th \in Running : PnpClaim(th)
    \/ \E th \in Running : PnpRelease(th)

DrainSpec == DrainInit /\ [][NextDrain]_vars

\* ---------------------------------------------------------------- properties
\* the execute_download instances that hold a slot
SlotHolders == Count(threads, IsExec)

\* the worker processes that are running
LiveWorkers == LET P(th) == th.worker = "running" IN Count(threads, P)

\* C1: at most one execute_download instance is live for a task id at any time
C1_SingleOwner == \A id \in TaskIds : Owners(id) <= 1

\* C2: the transitions to Completed and to Cancelled exclude each other: a
\* row set Cancelled is never changed to Completed by a pipeline whose worker
\* exits at that moment, and a Completed row is never changed to Cancelled
C2_TerminalExclusive ==
    [][\A id \in Rows :
          /\ Status(id) \in {Cancelled, Completed}
          /\ downloads'[id].status \in {Cancelled, Completed}
          => downloads'[id].status = Status(id)]_vars

\* C3: with a fixed ceiling, the execute_download instances that hold a slot
\* never let the live worker processes outnumber the ceiling
C3_SlotBound == LiveWorkers <= max_concurrent

\* C5: when a cancel command has flipped the Downloading row of a dispatch to
\* Cancelled, that dispatch ends with its worker dead or never spawned and
\* with the row Cancelled
C5_CancelWins ==
    \A th \in Running :
        IsExec(th) /\ th.hit /\ th.pc = "release"
           => th.worker \in {"none", "killed"} /\ Status(th.task) = Cancelled

\* the edges of the status state machine
Edges ==
    {<<Pending, Downloading>>, <<Downloading, Completed>>, <<Downloading, Failed>>,
     <<Downloading, Cancelled>>, <<Pending, Cancelled>>, <<Failed, Pending>>,
     <<Cancelled, Pending>>}

\* C6: every change of a row's status follows an edge of the state machine
C6_EdgesOnly ==
    [][\A id \in Rows :
          downloads'[id].status # Status(id)
             => <<Status(id), downloads'[id].status>> \in Edges]_vars

\* C7: a step makes a row Completed if and only if the same step inserts
\* exactly one history record
C7_CompletedIffRecorded ==
    [][/\ (\E id \in Rows : Status(id) # Completed /\ downloads'[id].status = Completed)
            => history' = history + 1
       /\ history' # history
            => /\ history' = history + 1
               /\ \E id \in Rows : downloads'[id].status = Completed]_vars

\* C4: concurrent claim_next_pending calls return pairwise distinct rows: no
\* row is handed to two pipelines
C4_DistinctClaims ==
    \A th \in Running : IsExec(th) => CopiesIn(th, threads) = 1

\* two callers have both claimed, from a table that held at least two Pending rows
C4_Witness == SlotHolders >= 2

NumRows(status) == Cardinality({id \in Rows : Status(id) = status})

Min(a, b) == IF a < b THEN a ELSE b

\* the add_to_queue calls made so far have returned and what they spawned has
\* run, and no pipeline has ended
Undisturbed ==
    /\ NoneEnded
    /\ \A th \in Running : IsExec(th)

\* C8: after N add_to_queue calls from an idle gate with ceiling M and no
\* pipeline ending meanwhile, min(N, M) rows are Downloading and the others
\* Pending; and, every worker exiting in the end, every Pending row is
\* dispatched later on
C8_Backlog ==
    /\ [](Undisturbed =>
            /\ NumRows(Downloading) = Min(Cardinality(Rows), max_concurrent)
            /\ NumRows(Pending) = Cardinality(Rows) - NumRows(Downloading))
    /\ \A id \in TaskIds :
          (id \in Rows /\ Status(id) = Pending) ~> (id \in Rows /\ Status(id) # Pending)

\* with ceiling 1 the second task enqueued was left Pending and has been
\* dispatched after the first one reached a terminal state
C8_Witness ==
    /\ max_concurrent = 1
    /\ Rows = {1, 2}
    /\ Status(1) \in Terminal
    /\ Status(2) = Downloading
    /\ Owners(2) = 1
    /\ crashes = 0

\* C9: the startup sweep sets every Downloading row Failed with the message
\* 'App closed during download', changes no other row, returns the number of
\* rows it changed, and leaves no row Downloading and the new gate's count 0
C9_StartupSweep ==
    [][phase = "down" /\ phase' = "up" =>
          /\ DOMAIN downloads' = Rows
          /\ \A id \in Rows :
                IF Status(id) = Downloading
                THEN downloads'[id] = [downloads[id] EXCEPT
                                          !.status = Failed,
                                          !.error_message = AppClosedMsg]
                ELSE downloads'[id] = downloads[id]
          /\ reset_count' = NumRows(Downloading)
          /\ \A id \in Rows : downloads'[id].status # Downloading
          /\ active_count' = 0
          /\ history' = history]_vars

\* a restart has swept a row that the crash left Downloading
C9_Witness ==
    /\ phase = "up"
    /\ crashes > 0
    /\ reset_count > 0
    /\ \E id \in Rows :
          Status(id) = Failed /\ downloads[id].error_message = AppClosedMsg

\* C10: the startup sweep leaves the Pending rows Pending, and the delayed
\* process_next_pending of setup dispatches them without any command: every
\* row that was Pending at the start leaves Pending
C10_PendingResumed ==
    /\ [][phase = "down" /\ phase' = "up" =>
             \A id \in Rows : Status(id) = Pending => downloads'[id] = downloads[id]]_vars
    /\ \A id \in TaskIds :
          (phase = "up" /\ id \in stale_pending) ~> (id \in Rows /\ Status(id) # Pending)

\* a row that was Pending when the process stopped is Downloading after the
\* restart, and no command was given since
C10_Witness ==
    /\ phase = "up"
    /\ crashes > 0
    /\ \E id \in stale_pending : Status(id) = Downloading /\ Owners(id) = 1
    /\ \A th \in Running : ~IsCmd(th)

\* the step is a call of cancel_download(id)
CancelCalled(id, pc) ==
    LET c == Cmd("cancel_download", pc, id)
    IN  CopiesIn(c, threads') > CopiesIn(c, threads)

\* C11: cancel_if_active(id) sets the row Cancelled and returns true only
\* when the row is Pending or Downloading; when the row is Completed, Failed,
\* Cancelled or absent it returns false and changes no row, and cancel_download
\* then returns without a cancel signal
C11_CancelFrame ==
    [][/\ \A id \in TaskIds :
             IF id \in Rows /\ Status(id) \in {Pending, Downloading}
             THEN /\ ~CancelCalled(id, "return")
                  /\ CancelCalled(id, "send_cancel") =>
                        downloads' = [downloads EXCEPT ![id].status = Cancelled]
             ELSE /\ ~CancelCalled(id, "send_cancel")
                  /\ CancelCalled(id, "return") =>
                        UNCHANGED <<downloads, cancel_senders>>
       /\ \A th \in Running :
             /\ th.kind = "cancel_download" /\ th.pc = "return"
             /\ CopiesIn(th, threads') < CopiesIn(th, threads)
             => /\ UNCHANGED <<downloads, cancel_senders>>
                /\ threads' = Exit(threads, th)]_vars

\* cancel_download was called on a Completed row and is about to return
C11_Witness ==
    \E th \in Running :
       /\ th.kind = "cancel_download"
       /\ th.pc = "return"
       /\ th.task \in Rows
       /\ Status(th.task) = Completed

\* retry_download(id) has found the Failed row and is about to reset it
Retrying(id) ==
    /\ id \in Rows
    /\ Status(id) = Failed
    /\ \E th \in Running : th.kind = "retry_download" /\ th.pc = "set_pending" /\ th.task = id

\* C12: retry_download on a Failed task adds no row and keeps the id, and the
\* row goes from Failed to Pending, then to Downloading and then to one of
\* Completed, Failed, Cancelled
C12_RetrySameRow ==
    /\ [][\A th \in Running :
             th.kind = "retry_download" /\ CopiesIn(th, threads') < CopiesIn(th, threads)
                => /\ DOMAIN downloads' = DOMAIN downloads
                   /\ next_id' = next_id]_vars
    /\ [][\A id \in TaskIds :
             Retrying(id) /\ downloads'[id].status # Failed
                => downloads'[id].status = Pending]_vars
    /\ \A id \in TaskIds :
          Retrying(id) ~> (id \in Rows /\ Status(id) = Downloading)
    /\ \A id \in TaskIds :
          (id \in Rows /\ Status(id) = Downloading) ~> (id \in Rows /\ Status(id) \in Terminal)

\* th holds a slot: a pipeline up to its release, a command between its
\* try_acquire and the spawn of the pipeline, a scheduler loop between its
\* try_acquire and the spawn or the release
Holds(th) ==
    \/ IsExec(th)
    \/ th.kind \in {"add_to_queue", "retry_download"} /\ th.pc \in {"set_downloading", "release"}
    \/ th.kind = "process_next_pending" /\ th.pc \in {"claim_next_pending", "release"}

\* C13: every execute_download run gives its slot back once, and then
\* invokes process_next_pending, on every exit path; so the count of the gate
\* is the number of pipelines and dispatchers that hold a slot
C13_GateCount ==
    /\ [](active_count = Count(threads, Holds))
    /\ [][\A th \in Running :
             IsExec(th) /\ CopiesIn(th, threads') < CopiesIn(th, threads)
                => \/ /\ th.pc = "release"
                      /\ active_count' = active_count - 1
                      /\ CopiesIn(Pnp, threads') = CopiesIn(Pnp, threads) + 1
                   \/ /\ th.pc # "release"
                      /\ active_count' = active_count
                      /\ Count(threads', IsExec) = Count(threads, IsExec)]_vars

\* ceiling 2: one task was cancelled while Downloading and its pipeline has
\* ended, the other is running, and the count is 1
C13_Witness ==
    /\ max_concurrent = 2
    /\ active_count = 1
    /\ \E id \in Rows :
          /\ Status(id) = Cancelled
          /\ Owners(id) = 0
          /\ id \notin cancel_senders
          /\ \E th \in Running : th = Selecting(3 - id)
    /\ Count(threads, Holds) = 1

\* C14: when an execute_download run panics, at whatever point, its wrapper
\* releases the slot the run held and invokes process_next_pending: the run
\* and its wrapper together give back one slot, neither none nor two
C14_PanicOneRelease ==
    [][\A th \in Running :
          /\ IsExec(th)
          /\ th.pc \in {"panicked", "panicked_tail"}
          /\ CopiesIn(th, threads') < CopiesIn(th, threads)
          => /\ active_count' = IF th.pc = "panicked"
                                THEN active_count - 1
                                ELSE active_count
             /\ CopiesIn(Pnp, threads') = CopiesIn(Pnp, threads) + 1]_vars

\* C15: a dispatch that has ended has left the row Completed, Failed or
\* Cancelled: when an execute_download run returns, the row of its task is not
\* Downloading any more
C15_EndsTerminal ==
    [][\A th \in Running :
          /\ IsExec(th)
          /\ th.pc = "release"
          /\ th.task \in Rows
          /\ CopiesIn(th, threads') < CopiesIn(th, threads)
          => Status(th.task) \in Terminal]_vars

TerminalKinds == {"completed", "error", "cancelled"}

\* C16: within one pipeline run the completed, error or cancelled event is the
\* last event the run emits: no started or progress event of the run follows it
C16_TerminalLast ==
    \A th \in Running :
        IsExec(th) =>
            \A i \in 1..Len(th.log) : th.log[i] \in TerminalKinds => i = Len(th.log)

\* a run whose reader emitted progress and which emitted its terminal event
\* after a cancel, with the reader ended
C16_Witness ==
    \E th \in Running :
        /\ IsExec(th)
        /\ th.log = <<"started", "progress", "cancelled">>
        /\ th.reader = "eof"

\* no command and no pipeline is at work on the row id
Settled(id) == \A th \in Running : th.task # id

\* the event kind that publishes a status
KindOf(status) ==
    CASE status = Downloading -> "started"
      [] status = Completed -> "completed"
      [] status = Failed -> "error"
      [] status = Cancelled -> "cancelled"

\* C17: every change of a row to Completed, Failed or Cancelled is published
\* as a download-event of the matching kind for its id: once the command or
\* pipeline that made the change is done, the event has been emitted
C17_Published ==
    \A id \in Rows :
        Settled(id) /\ Status(id) \in Terminal => KindOf(Status(id)) \in events[id]

\* calls of try_acquire and release, by where they are
IsAcquire(th) == th.kind = "try_acquire"
IsRelease(th) == th.kind = "release"
Granted == LET P(th) == IsAcquire(th) /\ th.pc = "true" IN Count(threads, P)
Refused == LET P(th) == IsAcquire(th) /\ th.pc = "false" IN Count(threads, P)
Released == LET P(th) == IsRelease(th) /\ th.pc = "done" IN Count(threads, P)
AllReturned == \A th \in Running : th.pc \in {"true", "false", "done"}

\* C18: with a fixed ceiling, a try_acquire call returns true exactly in the
\* step that raises the count by 1 from a value below the ceiling; a call that
\* returns false leaves the count as it is; the count never exceeds the ceiling;
\* and when k calls are made at count c and nothing else touches the gate,
\* exactly min(k, ceiling - c) of them return true
C18_AcquireExact ==
    /\ [](active_count <= max_concurrent)
    /\ [][/\ Granted' > Granted =>
                /\ active_count < max_concurrent
                /\ active_count' = active_count + 1
                /\ Granted' = Granted + 1
          /\ active_count' > active_count => Granted' = Granted + 1
          /\ Refused' > Refused => active_count' = active_count]_vars
    /\ [](AllReturned /\ Count(threads, IsRelease) = 0 =>
            \A th \in Running :
                Granted = Min(Count(threads, IsAcquire), max_concurrent - th.cnt))

\* three calls at once, two granted and one refused
C18_Witness ==
    /\ AllReturned
    /\ Count(threads, IsRelease) = 0
    /\ Granted = 2
    /\ Refused = 1

\* C19: release lowers the count by exactly 1 when it is positive and leaves
\* it at 0 when it is 0, under any interleaving of release and try_acquire
\* calls; the count never leaves the range from 0 to the ceiling
C19_ReleaseSaturates ==
    /\ [](active_count \in 0..max_concurrent)
    /\ [][/\ Released' > Released =>
                /\ active_count' = IF active_count > 0 THEN active_count - 1 ELSE 0
                /\ Released' = Released + 1
          /\ active_count' < active_count => Released' = Released + 1]_vars

\* two releases at count 0, both done, with no acquisition: the count is 0
C19_Witness ==
    /\ AllReturned
    /\ Released = 2
    /\ Count(threads, IsAcquire) = 0
    /\ \A th \in Running : th.cnt = 0
    /\ active_count = 0

\* C20: the ceiling always lies in [1, 20], as DownloadManager::new and
\* set_max_concurrent store it; a step that changes the ceiling changes neither
\* the count nor the cancel registry nor any pipeline or row; and every step
\* that takes a slot finds the count below the ceiling of that moment
C20_Ceiling ==
    /\ [](max_concurrent \in MinConcurrent..MaxConcurrent)
    /\ [][/\ max_concurrent' # max_concurrent =>
                /\ active_count' = active_count
                /\ cancel_senders' = cancel_senders
                /\ threads' = threads
                /\ downloads' = downloads
          /\ active_count' > active_count => active_count < max_concurrent]_vars

\* the ceiling was lowered under two running pipelines: the count exceeds it
\* and both workers run on
C20_Witness ==
    /\ active_count > max_concurrent
    /\ cancel_senders = {1, 2}
    /\ \A id \in {1, 2} :
          \E th \in Running : IsExec(th) /\ th.task = id /\ th.worker = "running"

\* a call of manager.send_cancel(th.task) is made in this step
Sends(th) ==
    /\ th.kind \in {"cancel_download", "cancel_all_downloads"}
    /\ th.pc = "send_cancel"
    /\ CopiesIn(th, threads') < CopiesIn(th, threads)

\* the pipelines of the bag B that satisfy nothing about id: those of other tasks
OthersOf(B, id) == {x \in BagToSet(B) : IsExec(x) /\ x.task # id}

\* C21: send_cancel(id) signals only the pipeline registered for id: the
\* pipelines of every other task and their senders stay as they are, and when
\* no sender is registered for id the call changes nothing at all
C21_SendCancelFrame ==
    [][\A th \in Running :
          Sends(th) =>
             /\ \A x \in OthersOf(threads, th.task) \cup OthersOf(threads', th.task) :
                   CopiesIn(x, threads') = CopiesIn(x, threads)
             /\ cancel_senders' = cancel_senders \ {th.task}
             /\ UNCHANGED <<downloads, active_count, max_concurrent>>
             /\ th.task \notin cancel_senders =>
                   \A x \in Running \cup BagToSet(threads') :
                       IsExec(x) => CopiesIn(x, threads') = CopiesIn(x, threads)]_vars

\* send_cancel(1) has fired the receiver of the pipeline of task 1 while the
\* pipeline of task 2 waits in its select with its receiver armed
C21_Witness ==
    /\ cancel_senders = {2}
    /\ \A th \in Running : IsExec(th)
    /\ \E x \in Running : x.task = 1 /\ x.pc = "select" /\ x.rx = "fired" /\ x.hit
    /\ \E y \in Running : y.task = 2 /\ y.pc = "select" /\ y.rx = "armed"

\* the pipeline x as a cancel_all over the registry S leaves it
Signalled(x, S) ==
    IF IsExec(x) /\ x.task \in S /\ x.rx = "armed" THEN [x EXCEPT !.rx = "fired"] ELSE x

\* C22: cancel_all() fires the receiver of every task registered at the call
\* and leaves the registry empty; it changes neither the gate count nor any
\* row, and no pipeline has moved or ended when it returns
C22_CancelAll ==
    [][\A th \in Running :
          /\ th.kind = "cancel_all" /\ th.pc = "drain"
          /\ CopiesIn(th, threads') < CopiesIn(th, threads)
          => /\ cancel_senders' = {}
             /\ UNCHANGED <<downloads, history, active_count, max_concurrent>>
             /\ \A x \in BagToSet(threads') :
                   IsExec(x) => ~(x.task \in cancel_senders /\ x.rx = "armed")
             /\ \A x \in Running \ {th} :
                   CopiesIn(Signalled(x, cancel_senders), threads') >= CopiesIn(x, threads)
             /\ Count(threads', IsExec) = Count(threads, IsExec)]_vars

\* cancel_all() has returned: two pipelines, both in their select with the
\* receiver fired, still hold their slots, and both rows are still Downloading
C22_Witness ==
    /\ cancel_senders = {}
    /\ active_count = 2
    /\ \A id \in {1, 2} :
          /\ id \in Rows /\ Status(id) = Downloading
          /\ \E x \in Running : IsExec(x) /\ x.task = id /\ x.pc = "select"
                                /\ x.rx = "fired" /\ ~x.hit
    /\ \A th \in Running : IsExec(th)

\* cancel_all_downloads has returned, no command or scheduler loop is at
\* work, and every pipeline that a cancel signalled or that has written its
\* last status has released its slot: what runs are pipelines that no cancel
\* touched, each with its row Downloading
SyncSettled ==
    \A th \in Running :
        /\ IsExec(th)
        /\ ~th.hit
        /\ th.rx # "fired"
        /\ th.pc \in {"get_download", "resolve", "register_cancel", "select"}
        /\ th.task \in Rows
        /\ Status(th.task) = Downloading

\* C23: the count written by sync_active_count corrects drift: once
\* cancel_all_downloads has returned and the pipelines it signalled have
\* released their slots, the gate count is the number of slot holders
C23_SyncCorrects == SyncSettled => active_count = Count(threads, Holds)

\* the rows that differ between the table before and after the step
Changed == {r \in Rows : r \notin DOMAIN downloads' \/ downloads'[r] # downloads[r]}

\* a call of claim_next_pending is made in this step
Claims(th) ==
    /\ th.kind = "process_next_pending"
    /\ th.pc = "claim_next_pending"
    /\ CopiesIn(th, threads') < CopiesIn(th, threads)

\* C24: when a row is Pending, claim_next_pending changes exactly one row, a
\* Pending row whose created_at is minimal among the Pending rows, to
\* Downloading, and returns it; when none is Pending it returns None and
\* changes nothing; a row that is not Pending is never modified
C24_ClaimOldest ==
    [][\A th \in Running :
          Claims(th) =>
             /\ DOMAIN downloads' = Rows
             /\ \A r \in Changed : Status(r) = Pending
             /\ IF \E r \in Rows : Status(r) = Pending
                THEN \E r \in Rows :
                        /\ Changed = {r}
                        /\ \A q \in Rows :
                              Status(q) = Pending =>
                                 downloads[r].created_at <= downloads[q].created_at
                        /\ downloads' = [downloads EXCEPT ![r].status = Downloading]
                        /\ CopiesIn(Exec(r), threads') = CopiesIn(Exec(r), threads) + 1
                        /\ Count(threads', IsExec) = Count(threads, IsExec) + 1
                ELSE /\ Changed = {}
                     /\ Count(threads', IsExec) = Count(threads, IsExec)]_vars

\* a claim has taken the older of two Pending rows that lie behind a row
\* that is not Pending
C24_Witness ==
    /\ Len(downloads) = 3
    /\ Status(1) = Failed
    /\ Status(2) = Downloading
    /\ Status(3) = Pending
    /\ downloads[2].created_at < downloads[3].created_at
    /\ \E th \in Running : th = Exec(2)

\* the run x is what the run th has become in this step
Into(th, x) ==
    /\ IsExec(x)
    /\ x.task = th.task
    /\ CopiesIn(th, threads') < CopiesIn(th, threads)
    /\ CopiesIn(x, threads') > CopiesIn(x, threads)

\* C25: when the worker executable cannot be resolved, the run sets its row
\* Failed with a message, emits an error event, has no worker and no cancel
\* signal, and goes straight to the release of its slot; it then releases the
\* slot once and invokes process_next_pending
C25_NotFound ==
    /\ [](\A x \in Running :
             IsExec(x) /\ x.worker = "missing" =>
                /\ x.pc = "release"
                /\ x.rx = "none"
                /\ x.reader = "none"
                /\ x.log = <<"error">>
                /\ "error" \in events[x.task])
    /\ [][\A th \in Running : \A x \in BagToSet(threads') :
             IsExec(th) /\ th.pc = "resolve" /\ Into(th, x) /\ x.worker = "missing" =>
                /\ DOMAIN downloads' = Rows
                /\ downloads'[th.task].status = Failed
                /\ downloads'[th.task].error_message # NULL
                /\ \A r \in Rows \ {th.task} : downloads'[r] = downloads[r]
                /\ UNCHANGED <<active_count, cancel_senders, history>>
                /\ Count(threads', IsExec) = Count(threads, IsExec)]_vars
    /\ [][\A x \in Running :
             /\ IsExec(x) /\ x.worker = "missing"
             /\ CopiesIn(x, threads') < CopiesIn(x, threads)
             => /\ active_count > 0
                /\ active_count' = active_count - 1
                /\ CopiesIn(Pnp, threads') = CopiesIn(Pnp, threads) + 1
                /\ Count(threads', IsExec) = Count(threads, IsExec) - 1
                /\ UNCHANGED <<downloads, history, cancel_senders>>]_vars

\* the executable was not found for task 1: the run has ended, the row is
\* Failed with the message, the slot is free again and nothing is registered
C25_Witness ==
    /\ 1 \in Rows
    /\ Status(1) = Failed
    /\ downloads[1].error_message = NotFoundMsg
    /\ events[1] = {"error"}
    /\ threads = EmptyBag
    /\ active_count = 0
    /\ cancel_senders = {}

\* C26: every row whose status is Failed carries an error message
C26_FailedHasMessage ==
    \A id \in Rows : Status(id) = Failed => downloads[id].error_message # NULL

\* one row was failed by the startup sweep and the other by its pipeline
C26_Witness ==
    /\ Rows = {1, 2}
    /\ \E id \in Rows :
          /\ Status(id) = Failed
          /\ downloads[id].error_message = AppClosedMsg
          /\ Status(3 - id) = Failed
          /\ downloads[3 - id].error_message \in {ExitMsg, WaitMsg, SpawnMsg, NotFoundMsg}

\* a call of clear_completed is made in this step and returns n
Clears(n) ==
    LET c == [Cmd("clear_completed", "return", 0) EXCEPT !.cnt = n]
    IN  CopiesIn(c, threads') > CopiesIn(c, threads)

\* C27: clear_completed deletes exactly the rows that are Completed,
\* Cancelled or Failed and returns their number; it leaves every Pending and
\* Downloading row as it is; no other step removes a row
C27_ClearFrame ==
    [][IF \E n \in 0..MaxTasks : Clears(n)
       THEN /\ DOMAIN downloads' = {r \in Rows : Status(r) \in {Pending, Downloading}}
            /\ \A r \in DOMAIN downloads' : downloads'[r] = downloads[r]
            /\ Clears(Cardinality({r \in Rows : Status(r) \in Terminal}))
       ELSE Rows \subseteq DOMAIN downloads']_vars

\* the run th has taken a step of its own and has become x: its position has
\* changed and the cancel marks others put on it have not
Advances(th, x) ==
    /\ Into(th, x)
    /\ x.pc # th.pc
    /\ x.hit = th.hit
    /\ x.rx = th.rx

\* clear_completed has deleted the Cancelled row 1 and has left the
\* Downloading row 2, whose pipeline runs
C27_Witness ==
    /\ Rows = {2}
    /\ Status(2) = Downloading
    /\ \E th \in Running : th.kind = "clear_completed" /\ th.cnt = 1
    /\ \E th \in Running : IsExec(th) /\ th.task = 2 /\ th.pc = "select"

\* C28: a run that finds its row Cancelled or gone when it reads it at its
\* start goes straight to the release of its slot: no worker, no cancel signal,
\* no event, no write to the store; it then releases the slot once and invokes
\* process_next_pending; and a pipeline is only ever started for a row that is
\* Pending, so the task is not run again
C28_CancelledAtStart ==
    /\ [][\A th \in Running :
             /\ IsExec(th) /\ th.pc = "get_download"
             /\ CopiesIn(th, threads') < CopiesIn(th, threads)
             /\ \E x \in BagToSet(threads') : Advances(th, x)
             => IF th.task \notin Rows \/ Status(th.task) = Cancelled
                THEN /\ threads' = Step(th, "release")
                     /\ UNCHANGED <<downloads, history, events, cancel_senders,
                                    active_count>>
                ELSE threads' = Step(th, "resolve")]_vars
    /\ [][\A th \in Running :
             /\ IsExec(th) /\ th.pc = "release"
             /\ CopiesIn(th, threads') < CopiesIn(th, threads)
             /\ Count(threads', IsExec) < Count(threads, IsExec)
             => /\ active_count' = active_count - 1
                /\ threads' = Become(threads, th, Pnp)
                /\ UNCHANGED <<downloads, history, events, cancel_senders>>]_vars
    /\ [][\A th \in Running : \A id \in TaskIds :
             /\ Claims(th)
             /\ CopiesIn(Exec(id), threads') > CopiesIn(Exec(id), threads)
             => id \in Rows /\ Status(id) = Pending]_vars

\* the row of task 1 was cancelled and cleared before its run read it: the run
\* is about to release its slot and nothing was emitted, spawned or registered
C28_Witness ==
    /\ 1 \notin Rows
    /\ next_id > 1
    /\ events[1] = {}
    /\ cancel_senders = {}
    /\ active_count = 1
    /\ threads = SetToBag({[Exec(1) EXCEPT !.pc = "release"]})

\* C29: once a task's row is Completed, Failed or Cancelled, the stdout reader
\* of its run emits no further progress event (and makes no further progress
\* write, which the reader does together with the event): no step adds a
\* progress event for a task whose row is already terminal
C29_ReaderJoined ==
    [][\A id \in Rows :
          Status(id) \in Terminal =>
             ("progress" \in events'[id] => "progress" \in events[id])]_vars

\* C30: on every path a run gives its slot back only after the worker it
\* spawned has exited: in the step in which a run ends and its slot is
\* released, the run has no running worker
C30_ReleaseAfterExit ==
    [][\A th \in Running :
          /\ IsExec(th)
          /\ CopiesIn(th, threads') < CopiesIn(th, threads)
          /\ Count(threads', IsExec) < Count(threads, IsExec)
          => th.worker # "running"]_vars

\* the last n bytes of s
LastBytes(s, n) == IF Len(s) <= n THEN s ELSE SubSeq(s, Len(s) - n + 1, Len(s))

IsAscii(s) == \A i \in 1..Len(s) : s[i] \notin {Lead, Cont}

\* C37: after any sequence of appends the buffer is at most max bytes long and
\* holds the most recent bytes of what was appended, lines joined by line
\* feeds; when all of it is ASCII the buffer is exactly the last max bytes
C37_AppendLimited ==
    /\ Len(output) <= max_bytes
    /\ output = LastBytes(appended, Len(output))
    /\ IsAscii(appended) => output = LastBytes(appended, max_bytes)

\* two ASCII lines were appended and the front of the first was evicted
C37_Witness ==
    /\ max_bytes = 3
    /\ appended = <<"a", "b", NewLine, "b", "a">>
    /\ output = <<NewLine, "b", "a">>

\* the ways to read the text t as <percent>%|<speed>|<eta>: the percent is its
\* first n characters, digits with at most one dot, and the bars are the
\* characters n + 2 and j, the only ones
Forms(t) ==
    {f \in (1..Len(t)) \X (1..Len(t)) :
        /\ f[2] >= f[1] + 3
        /\ \A i \in 1..f[1] : t[i] \in Digits \cup {"."}
        /\ \E i \in 1..f[1] : t[i] \in Digits
        /\ \A i, k \in 1..f[1] : t[i] = "." /\ t[k] = "." => i = k
        /\ t[f[1] + 1] = "%"
        /\ \A i \in 1..Len(t) : t[i] = "|" <=> i \in {f[1] + 2, f[2]}}

\* the field values that stand for no value
NoValue == {<<>>, <<"N", "/", "A">>, <<"U", "n", "k", "n", "o", "w", "n">>}

\* the snapshot of a text of that form
Snapshot(t, f) ==
    LET speed == trim(SubSeq(t, f[1] + 3, f[2] - 1))
        eta == trim(SubSeq(t, f[2] + 1, Len(t)))
    IN  [percent |-> SubSeq(t, 1, f[1]),
         speed |-> IF speed \in NoValue THEN None ELSE Some(speed),
         eta |-> IF eta \in NoValue THEN None ELSE Some(eta)]

Quiescent == threads = EmptyBag

\* C31: a task left Pending for want of a slot is dispatched once a slot is
\* free: in no quiescent state is a row Pending while the count of the gate is
\* below the ceiling
C31_PendingDispatched ==
    Quiescent => \A id \in Rows : Status(id) = Pending => active_count >= max_concurrent

\* a scheduler loop is running
Draining == \E th \in Running : th.kind = "process_next_pending"

\* the pipelines dispatched and not yet started, and the rows they own
Fresh(th) == IsExec(th) /\ th.pc = "get_download"
FreshRows == {id \in Rows : \E th \in Running : Fresh(th) /\ th.task = id}

\* the pipelines that were running before
Waiting(th) == IsExec(th) /\ th.pc = "select"

\* C32: a process_next_pending that runs alone, with f = ceiling - count free
\* slots and p Pending rows, has spawned min(f, p) pipelines when it returns,
\* for the rows that were Pending with the least created_at, and leaves the
\* count raised by min(f, p)
C32_DrainsBacklog ==
    LET before == Count(threads, Waiting)
        spawned == Count(threads, Fresh)
        f == max_concurrent - before
        p == spawned + NumRows(Pending)
    IN  /\ \A id \in FreshRows : Status(id) = Downloading /\ Owners(id) = 1
        /\ spawned = Cardinality(FreshRows)
        /\ \A id \in FreshRows : \A q \in Rows :
              Status(q) = Pending => downloads[id].created_at <= downloads[q].created_at
        /\ ~Draining => /\ spawned = Min(f, p)
                        /\ active_count = before + spawned

\* ceiling 2, nothing running, one Pending row among three: the loop has
\* dispatched it, taken the second slot, found nothing, released and returned
C32_Witness ==
    /\ ~Draining
    /\ max_concurrent = 2
    /\ active_count = 1
    /\ Len(downloads) = 3
    /\ Count(threads, Fresh) = 1
    /\ Count(threads, Waiting) = 0
    /\ NumRows(Pending) = 0

\* C33: a command or scheduler loop that holds a slot it took with
\* try_acquire gives it to a pipeline it spawns or releases it, also when the
\* status update or the claim fails: in a step in which such a thread moves
\* on, it still holds the slot, or a pipeline was spawned, or the count went
\* down by one
C33_SlotNotLeaked ==
    [][\A th \in Running :
          /\ th.kind \in {"add_to_queue", "retry_download", "process_next_pending"}
          /\ Holds(th)
          /\ CopiesIn(th, threads') < CopiesIn(th, threads)
          => \/ \E x \in BagToSet(threads') :
                   /\ x.kind = th.kind
                   /\ x.task = th.task
                   /\ Holds(x)
                   /\ CopiesIn(x, threads') > CopiesIn(x, threads)
             \/ Count(threads', IsExec) = Count(threads, IsExec) + 1
             \/ active_count' = active_count - 1]_vars

\* C34: a cancel sticks for a task that has no pipeline: with no
\* retry_download, a row that is Cancelled and has no pipeline is never set
\* Downloading again
C34_CancelSticks ==
    [][\A id \in Rows :
          Status(id) = Cancelled /\ Owners(id) = 0
             => downloads'[id].status # Downloading]_vars

\* the run th performs its unregister_cancel in this step
Unregisters(th) ==
    /\ IsExec(th)
    /\ th.pc = "unregister_cancel"
    /\ CopiesIn(th, threads') < CopiesIn(th, threads)
    /\ \E x \in BagToSet(threads') : Into(th, x) /\ x.pc = "release"

\* C35: the cancel registry holds a sender only for a task that has a live
\* pipeline, and the unregister_cancel of one run leaves the receiver of
\* every other run connected to its sender
C35_RegistryLive ==
    /\ [](\A id \in cancel_senders : Owners(id) >= 1)
    /\ [][\A th \in Running :
             Unregisters(th) =>
                \A x \in Running :
                   IsExec(x) /\ x # th /\ x.rx = "armed"
                      => CopiesIn(x, threads') >= CopiesIn(x, threads)]_vars

\* cancel_all_downloads returns: its thread leaves after sync_active_count
Returns(th) ==
    /\ At(th, "cancel_all_downloads", "sync_active_count")
    /\ CopiesIn(th, threads') < CopiesIn(th, threads)

\* C36: when cancel_all_downloads returns, every row that was Pending or
\* Downloading when it read its ids is in a terminal state, and its loop
\* changes only rows that are Pending or Downloading, to Cancelled, counting
\* each change once
C36_CancelAllTerminal ==
    /\ [][\A th \in Running : Returns(th) =>
             \A id \in th.snap : downloads'[id].status \in Terminal]_vars
    /\ [][\A th \in Running :
             At(th, "cancel_all_downloads", "cancel_if_active")
             /\ CopiesIn(th, threads') < CopiesIn(th, threads)
             /\ downloads' # downloads
                => \E id \in th.ids :
                      /\ Status(id) \in {Pending, Downloading}
                      /\ downloads' = [downloads EXCEPT ![id].status = Cancelled]
                      /\ \E x \in BagToSet(threads') :
                            /\ x.kind = "cancel_all_downloads"
                            /\ x.pc = "send_cancel" /\ x.task = id]_vars

====
